---- MODULE Spec2Model ----
(***************************************************************************)
(* Model of github.com/pechorka/migrations: the statement splitter         *)
(* (pkg/utils SplitStatements), the transaction helper (pkg/utils InTx),   *)
(* options validation and the three dialect appliers of Apply.             *)
(*                                                                         *)
(* A string is a sequence of one-character strings; positions are 0-based  *)
(* as in the Go code and At(s, i) reads s[i].                              *)
(***************************************************************************)
EXTENDS Integers, Sequences, FiniteSets, TLC

\* ------------------------------------------------------------------------
\* Characters
\* ------------------------------------------------------------------------

Lower == {"a","b","c","d","e","f","g","h","i","j","k","l","m",
          "n","o","p","q","r","s","t","u","v","w","x","y","z"}

Upper == {"A","B","C","D","E","F","G","H","I","J","K","L","M",
          "N","O","P","Q","R","S","T","U","V","W","X","Y","Z"}

Digit == {"0","1","2","3","4","5","6","7","8","9"}

\* unicode.IsSpace over the ASCII range, as used by strings.TrimSpace
Space == {" ", "\t", "\n", "\r", "\f"}

\* the backtick character (U+0060 cannot be written in a TLA+ string literal,
\* so it is the one character spelled with a token of its own)
Backtick == "BACKTICK"

At(s, i) == s[i + 1]

\* s[i:j] of Go
Slice(s, i, j) == SubSeq(s, i + 1, j)

\* ------------------------------------------------------------------------
\* SplitStatements
\* ------------------------------------------------------------------------

hasPrefixAt(s, i, p) == i + Len(p) <= Len(s) /\ Slice(s, i, i + Len(p)) = p

RECURSIVE TrimLeft(_)
TrimLeft(s) == IF s # <<>> /\ Head(s) \in Space THEN TrimLeft(Tail(s)) ELSE s

RECURSIVE TrimRight(_)
TrimRight(s) ==
    IF s # <<>> /\ s[Len(s)] \in Space THEN TrimRight(SubSeq(s, 1, Len(s) - 1)) ELSE s

TrimSpace(s) == TrimRight(TrimLeft(s))

\* the locals of SplitStatements before the scan starts
ScanInit ==
    [i |-> 0, out |-> <<>>, b |-> <<>>,
     inS |-> FALSE, inD |-> FALSE, inB |-> FALSE,
     inLineComment |-> FALSE, inBlockComment |-> 0, dollarTag |-> <<>>]

\* mutant of flush: the buffer is appended as it stands, untrimmed
flushUntrimmed(st) ==
    [st EXCEPT !.out = IF st.b # <<>> THEN Append(@, st.b) ELSE @,
               !.b = <<>>]

flush(st) ==
    LET stmt == TrimSpace(st.b)
    IN  [st EXCEPT !.out = IF stmt # <<>> THEN Append(@, stmt) ELSE @,
                   !.b = <<>>]

\* mutant of the tag scan: any character but a dollar sign counts as part of
\* the tag
RECURSIVE TagEndAny(_, _)
TagEndAny(s, j) ==
    IF j < Len(s) /\ At(s, j) # "$"
    THEN TagEndAny(s, j + 1)
    ELSE j

\* the index just after the run of [A-Za-z0-9_] that starts at j
RECURSIVE TagEnd(_, _)
TagEnd(s, j) ==
    IF j < Len(s) /\ At(s, j) \in (Lower \cup Upper \cup Digit \cup {"_"})
    THEN TagEnd(s, j + 1)
    ELSE j

\* mutant of the quoted modes: a backslash skips the next position without
\* looking whether there is one
QuotedStepSkipsPair(s, st, flag, q, backslash) ==
    LET i == st.i
        c == At(s, i)
        w == [st EXCEPT !.b = Append(@, c)]
    IN  IF backslash /\ c = "\\"
        THEN [w EXCEPT !.i = i + 2]
        ELSE IF c = q
        THEN IF i + 1 < Len(s) /\ At(s, i + 1) = q
             THEN [w EXCEPT !.b = Append(@, At(s, i + 1)), !.i = i + 2]
             ELSE [w EXCEPT ![flag] = FALSE, !.i = i + 1]
        ELSE [w EXCEPT !.i = i + 1]

\* mutant of the quoted modes: no backslash rule in any of them
QuotedStepNoBackslash(s, st, flag, q, backslash) ==
    LET i == st.i
        c == At(s, i)
        w == [st EXCEPT !.b = Append(@, c)]
    IN  IF c = q
        THEN IF i + 1 < Len(s) /\ At(s, i + 1) = q
             THEN [w EXCEPT !.b = Append(@, At(s, i + 1)), !.i = i + 2]
             ELSE [w EXCEPT ![flag] = FALSE, !.i = i + 1]
        ELSE [w EXCEPT !.i = i + 1]

\* mutant of the quoted modes: every delimiter closes, doubled or not
QuotedStepNoDoubling(s, st, flag, q, backslash) ==
    LET i == st.i
        c == At(s, i)
        w == [st EXCEPT !.b = Append(@, c)]
    IN  IF backslash /\ c = "\\"
        THEN IF i + 1 < Len(s)
             THEN [w EXCEPT !.b = Append(@, At(s, i + 1)), !.i = i + 2]
             ELSE [w EXCEPT !.i = i + 1]
        ELSE IF c = q
        THEN [w EXCEPT ![flag] = FALSE, !.i = i + 1]
        ELSE [w EXCEPT !.i = i + 1]

\* the body of a quoted mode: flag is "inS", "inD" or "inB", q its delimiter;
\* only the single-quoted mode has the backslash rule
QuotedStep(s, st, flag, q, backslash) ==
    LET i == st.i
        c == At(s, i)
        w == [st EXCEPT !.b = Append(@, c)]
    IN  IF backslash /\ c = "\\"
        THEN IF i + 1 < Len(s)
             THEN [w EXCEPT !.b = Append(@, At(s, i + 1)), !.i = i + 2]
             ELSE [w EXCEPT !.i = i + 1]
        ELSE IF c = q
        THEN IF i + 1 < Len(s) /\ At(s, i + 1) = q
             THEN [w EXCEPT !.b = Append(@, At(s, i + 1)), !.i = i + 2]
             ELSE [w EXCEPT ![flag] = FALSE, !.i = i + 1]
        ELSE [w EXCEPT !.i = i + 1]

\* mutant of the default mode: a double quote opens no quoted mode
TopLevelStepNoDoubleQuote(s, st) ==
    LET i == st.i
        c == At(s, i)
        j == TagEnd(s, i + 1)
    IN  IF hasPrefixAt(s, i, <<"-", "-">>)
        THEN [st EXCEPT !.inLineComment = TRUE, !.i = i + 2]
        ELSE IF hasPrefixAt(s, i, <<"/", "*">>)
        THEN [st EXCEPT !.inBlockComment = 1, !.i = i + 2]
        ELSE IF c = "$" /\ j < Len(s) /\ At(s, j) = "$"
        THEN [st EXCEPT !.dollarTag = Slice(s, i, j + 1),
                        !.b = @ \o Slice(s, i, j + 1),
                        !.i = j + 1]
        ELSE IF c = "'"
        THEN [st EXCEPT !.inS = TRUE, !.b = Append(@, c), !.i = i + 1]
        ELSE IF c = Backtick
        THEN [st EXCEPT !.inB = TRUE, !.b = Append(@, c), !.i = i + 1]
        ELSE IF c = ";"
        THEN [flush(st) EXCEPT !.i = i + 1]
        ELSE [st EXCEPT !.b = Append(@, c), !.i = i + 1]

\* mutant of the default mode: the dashes that open a line comment are
\* written to the buffer
TopLevelStepLeaksDashes(s, st) ==
    LET i == st.i
        c == At(s, i)
        j == TagEnd(s, i + 1)
    IN  IF hasPrefixAt(s, i, <<"-", "-">>)
        THEN [st EXCEPT !.inLineComment = TRUE, !.b = @ \o <<"-", "-">>, !.i = i + 2]
        ELSE IF hasPrefixAt(s, i, <<"/", "*">>)
        THEN [st EXCEPT !.inBlockComment = 1, !.i = i + 2]
        ELSE IF c = "$" /\ j < Len(s) /\ At(s, j) = "$"
        THEN [st EXCEPT !.dollarTag = Slice(s, i, j + 1),
                        !.b = @ \o Slice(s, i, j + 1),
                        !.i = j + 1]
        ELSE IF c = "'"
        THEN [st EXCEPT !.inS = TRUE, !.b = Append(@, c), !.i = i + 1]
        ELSE IF c = "\""
        THEN [st EXCEPT !.inD = TRUE, !.b = Append(@, c), !.i = i + 1]
        ELSE IF c = Backtick
        THEN [st EXCEPT !.inB = TRUE, !.b = Append(@, c), !.i = i + 1]
        ELSE IF c = ";"
        THEN [flush(st) EXCEPT !.i = i + 1]
        ELSE [st EXCEPT !.b = Append(@, c), !.i = i + 1]

\* mutant of the default mode: the tag of a dollar-quoted block is not
\* remembered, any $$ closes the block
TopLevelStepForgetsTag(s, st) ==
    LET i == st.i
        c == At(s, i)
        j == TagEnd(s, i + 1)
    IN  IF hasPrefixAt(s, i, <<"-", "-">>)
        THEN [st EXCEPT !.inLineComment = TRUE, !.i = i + 2]
        ELSE IF hasPrefixAt(s, i, <<"/", "*">>)
        THEN [st EXCEPT !.inBlockComment = 1, !.i = i + 2]
        ELSE IF c = "$" /\ j < Len(s) /\ At(s, j) = "$"
        THEN [st EXCEPT !.dollarTag = <<"$", "$">>,
                        !.b = @ \o Slice(s, i, j + 1),
                        !.i = j + 1]
        ELSE IF c = "'"
        THEN [st EXCEPT !.inS = TRUE, !.b = Append(@, c), !.i = i + 1]
        ELSE IF c = "\""
        THEN [st EXCEPT !.inD = TRUE, !.b = Append(@, c), !.i = i + 1]
        ELSE IF c = Backtick
        THEN [st EXCEPT !.inB = TRUE, !.b = Append(@, c), !.i = i + 1]
        ELSE IF c = ";"
        THEN [flush(st) EXCEPT !.i = i + 1]
        ELSE [st EXCEPT !.b = Append(@, c), !.i = i + 1]

\* mutant of the default mode: a space is written where a block comment
\* opens
TopLevelStepSpaceForComment(s, st) ==
    LET i == st.i
        c == At(s, i)
        j == TagEnd(s, i + 1)
    IN  IF hasPrefixAt(s, i, <<"-", "-">>)
        THEN [st EXCEPT !.inLineComment = TRUE, !.i = i + 2]
        ELSE IF hasPrefixAt(s, i, <<"/", "*">>)
        THEN [st EXCEPT !.inBlockComment = 1, !.b = Append(@, " "), !.i = i + 2]
        ELSE IF c = "$" /\ j < Len(s) /\ At(s, j) = "$"
        THEN [st EXCEPT !.dollarTag = Slice(s, i, j + 1),
                        !.b = @ \o Slice(s, i, j + 1),
                        !.i = j + 1]
        ELSE IF c = "'"
        THEN [st EXCEPT !.inS = TRUE, !.b = Append(@, c), !.i = i + 1]
        ELSE IF c = "\""
        THEN [st EXCEPT !.inD = TRUE, !.b = Append(@, c), !.i = i + 1]
        ELSE IF c = Backtick
        THEN [st EXCEPT !.inB = TRUE, !.b = Append(@, c), !.i = i + 1]
        ELSE IF c = ";"
        THEN [flush(st) EXCEPT !.i = i + 1]
        ELSE [st EXCEPT !.b = Append(@, c), !.i = i + 1]

\* top-level handling of one character (default mode)
TopLevelStep(s, st) ==
    LET i == st.i
        c == At(s, i)
        j == TagEnd(s, i + 1)
    IN  IF hasPrefixAt(s, i, <<"-", "-">>)
        THEN [st EXCEPT !.inLineComment = TRUE, !.i = i + 2]
        ELSE IF hasPrefixAt(s, i, <<"/", "*">>)
        THEN [st EXCEPT !.inBlockComment = 1, !.i = i + 2]
        ELSE IF c = "$" /\ j < Len(s) /\ At(s, j) = "$"
        THEN [st EXCEPT !.dollarTag = Slice(s, i, j + 1),
                        !.b = @ \o Slice(s, i, j + 1),
                        !.i = j + 1]
        ELSE IF c = "'"
        THEN [st EXCEPT !.inS = TRUE, !.b = Append(@, c), !.i = i + 1]
        ELSE IF c = "\""
        THEN [st EXCEPT !.inD = TRUE, !.b = Append(@, c), !.i = i + 1]
        ELSE IF c = Backtick
        THEN [st EXCEPT !.inB = TRUE, !.b = Append(@, c), !.i = i + 1]
        ELSE IF c = ";"
        THEN [flush(st) EXCEPT !.i = i + 1]
        ELSE [st EXCEPT !.b = Append(@, c), !.i = i + 1]

\* mutant of the loop body: block comments do not nest, the first */ ends one
ScanStepFlatComments(s, st) ==
    LET i == st.i
        c == At(s, i)
    IN  IF st.inLineComment
        THEN [st EXCEPT !.inLineComment = (c # "\n"), !.i = i + 1]
        ELSE IF st.inBlockComment > 0
        THEN IF hasPrefixAt(s, i, <<"*", "/">>)
             THEN [st EXCEPT !.inBlockComment = @ - 1, !.i = i + 2]
             ELSE [st EXCEPT !.i = i + 1]
        ELSE IF st.dollarTag # <<>>
        THEN IF hasPrefixAt(s, i, st.dollarTag)
             THEN [st EXCEPT !.b = @ \o st.dollarTag,
                             !.i = i + Len(st.dollarTag),
                             !.dollarTag = <<>>]
             ELSE [st EXCEPT !.b = Append(@, c), !.i = i + 1]
        ELSE IF st.inS THEN QuotedStep(s, st, "inS", "'", TRUE)
        ELSE IF st.inD THEN QuotedStep(s, st, "inD", "\"", FALSE)
        ELSE IF st.inB THEN QuotedStep(s, st, "inB", Backtick, FALSE)
        ELSE TopLevelStep(s, st)

\* mutant of the loop body: a single quote inside a line comment opens a
\* string
ScanStepQuoteInComment(s, st) ==
    LET i == st.i
        c == At(s, i)
    IN  IF st.inLineComment
        THEN [st EXCEPT !.inLineComment = (c # "\n"), !.inS = (c = "'"), !.i = i + 1]
        ELSE IF st.inBlockComment > 0
        THEN IF hasPrefixAt(s, i, <<"/", "*">>)
             THEN [st EXCEPT !.inBlockComment = @ + 1, !.i = i + 2]
             ELSE IF hasPrefixAt(s, i, <<"*", "/">>)
             THEN [st EXCEPT !.inBlockComment = @ - 1, !.i = i + 2]
             ELSE [st EXCEPT !.i = i + 1]
        ELSE IF st.dollarTag # <<>>
        THEN IF hasPrefixAt(s, i, st.dollarTag)
             THEN [st EXCEPT !.b = @ \o st.dollarTag,
                             !.i = i + Len(st.dollarTag),
                             !.dollarTag = <<>>]
             ELSE [st EXCEPT !.b = Append(@, c), !.i = i + 1]
        ELSE IF st.inS THEN QuotedStep(s, st, "inS", "'", TRUE)
        ELSE IF st.inD THEN QuotedStep(s, st, "inD", "\"", FALSE)
        ELSE IF st.inB THEN QuotedStep(s, st, "inB", Backtick, FALSE)
        ELSE TopLevelStep(s, st)

\* one iteration of the for loop, the loop's own i++ included
ScanStep(s, st) ==
    LET i == st.i
        c == At(s, i)
    IN  IF st.inLineComment
        THEN [st EXCEPT !.inLineComment = (c # "\n"), !.i = i + 1]
        ELSE IF st.inBlockComment > 0
        THEN IF hasPrefixAt(s, i, <<"/", "*">>)
             THEN [st EXCEPT !.inBlockComment = @ + 1, !.i = i + 2]
             ELSE IF hasPrefixAt(s, i, <<"*", "/">>)
             THEN [st EXCEPT !.inBlockComment = @ - 1, !.i = i + 2]
             ELSE [st EXCEPT !.i = i + 1]
        ELSE IF st.dollarTag # <<>>
        THEN IF hasPrefixAt(s, i, st.dollarTag)
             THEN [st EXCEPT !.b = @ \o st.dollarTag,
                             !.i = i + Len(st.dollarTag),
                             !.dollarTag = <<>>]
             ELSE [st EXCEPT !.b = Append(@, c), !.i = i + 1]
        ELSE IF st.inS THEN QuotedStep(s, st, "inS", "'", TRUE)
        ELSE IF st.inD THEN QuotedStep(s, st, "inD", "\"", FALSE)
        ELSE IF st.inB THEN QuotedStep(s, st, "inB", Backtick, FALSE)
        ELSE TopLevelStep(s, st)

RECURSIVE ScanFrom(_, _)
ScanFrom(s, st) == IF st.i < Len(s) THEN ScanFrom(s, ScanStep(s, st)) ELSE st

SplitStatements(s) == flush(ScanFrom(s, ScanInit)).out

\* ------------------------------------------------------------------------
\* Options
\* ------------------------------------------------------------------------

dialectBegin == 0

DialectSqlite == 1

DialectPostgres == 2

DialectMysql == 3

dialectEnd == 4

\* mutant of the range test: the lower sentinel, the zero value, is let in
IsValidDialectInclusive(d) == dialectBegin <= d /\ d < dialectEnd

IsValidDialect(d) == dialectBegin < d /\ d < dialectEnd

\* the default table name, "migrations"
DefaultTableName == <<"m","i","g","r","a","t","i","o","n","s">>

DefaultOptions == [Dialect |-> DialectSqlite, TableName |-> DefaultTableName]

\* An Option is a function on *Options that may return an error.  WithDialect
\* and WithTableName set one field and return nil; a caller-written Option
\* may return an error, which is the only way lines 51-53 of Apply run.
WithDialect(dialect) == [set |-> "Dialect", value |-> dialect, fails |-> FALSE]

WithTableName(table) == [set |-> "TableName", value |-> table, fails |-> FALSE]

FailingOption == [set |-> "none", value |-> 0, fails |-> TRUE]

\* mutant of an Option: a field that was set before is left as it is
modifyOptionsKeepsFirst(o, opts) ==
    IF o.set = "Dialect" /\ opts.Dialect = DialectSqlite
    THEN [opts EXCEPT !.Dialect = o.value]
    ELSE IF o.set = "TableName" /\ opts.TableName = DefaultTableName
    THEN [opts EXCEPT !.TableName = o.value]
    ELSE opts

modifyOptions(o, opts) ==
    IF o.set = "Dialect" THEN [opts EXCEPT !.Dialect = o.value]
    ELSE IF o.set = "TableName" THEN [opts EXCEPT !.TableName = o.value]
    ELSE opts

\* the range loop of Apply over userOptions: the options after the loop and
\* the 1-based index of the first option that returned an error (0: none)
RECURSIVE ApplyOptions(_, _, _)
ApplyOptions(opts, userOptions, k) ==
    IF k > Len(userOptions) THEN [opts |-> opts, failed |-> 0]
    ELSE IF userOptions[k].fails THEN [opts |-> opts, failed |-> k]
    ELSE ApplyOptions(modifyOptions(userOptions[k], opts), userOptions, k + 1)

\* mutant of the rune test: a digit is accepted at index 0 too
NameRuneOkAnyDigit(r, i) == r = "_" \/ r \in Lower \/ r \in Upper \/ r \in Digit

\* the test of one rune r at byte index i of the table name
NameRuneOk(r, i) ==
    r = "_" \/ r \in Lower \/ r \in Upper \/ (r \in Digit /\ i > 0)

\* "nil" or the error validateOptions returns
validateOptions(opts) ==
    IF ~IsValidDialect(opts.Dialect) THEN "dialect is not supported"
    ELSE IF opts.TableName = <<>> THEN "table name cannot be empty"
    ELSE IF \E i \in 0 .. Len(opts.TableName) - 1 : ~NameRuneOk(At(opts.TableName, i), i)
    THEN "invalid table name"
    ELSE "nil"

\* ------------------------------------------------------------------------
\* The database: bookkeeping tables by name, and the ordered list of the
\* migration statements whose effects it holds.  A transaction works on a
\* copy that commit installs and rollback drops.
\* ------------------------------------------------------------------------

\* the table names of the model's callers that pass validation
TableNames == {DefaultTableName}

NoTable == [exists |-> FALSE, rows |-> <<>>]

FreshDB == [tables |-> [t \in TableNames |-> NoTable], log |-> <<>>]

RowSet(table) == {table.rows[k] : k \in 1 .. Len(table.rows)}

\* CREATE TABLE IF NOT EXISTS t (version INTEGER PRIMARY KEY, ...)
CreateTableIfNotExists(d, t) ==
    IF d.tables[t].exists THEN d
    ELSE [d EXCEPT !.tables[t] = [exists |-> TRUE, rows |-> <<>>]]

Max(S) == CHOOSE x \in S : \A y \in S : y <= x

\* SELECT COALESCE(MAX(version), -1) FROM t
SelectMaxVersion(d, t) ==
    IF d.tables[t].rows = <<>> THEN -1 ELSE Max(RowSet(d.tables[t]))

\* mutant of the table definition: version is no key
PrimaryKeyUnenforced(d, t, v) == TRUE

\* the primary key on version refuses a second row with the same version
PrimaryKeyAllows(d, t, v) == v \notin RowSet(d.tables[t])

\* mutant of the insert: the new version overwrites the rows already there
InsertVersionRowReplaces(d, t, v) == [d EXCEPT !.tables[t].rows = <<v>>]

\* INSERT INTO t (version) VALUES (v)
InsertVersionRow(d, t, v) == [d EXCEPT !.tables[t].rows = Append(@, v)]

\* a migration statement's effect: statement i of the migration at position v
ExecStatement(d, v, i, sql) == [d EXCEPT !.log = Append(@, [v |-> v, i |-> i, sql |-> sql])]

\* ------------------------------------------------------------------------
\* Inputs
\* ------------------------------------------------------------------------

MaxMigs == 3

\* migration scripts: a comment only (no statement), one statement, and two
\* statements the second of which holds a quoted semicolon
ScriptPool ==
    << <<"-", "-", ";">>,
       <<"a">>,
       <<"b", ";", "'", ";", "'">> >>

\* the migration sequences a caller may own: the pool repeated from any start
MigrationSequences ==
    { [k \in 1 .. MaxMigs |-> ScriptPool[((k + r) % Len(ScriptPool)) + 1]] :
        r \in 1 .. Len(ScriptPool) }

\* the option lists a call may pass: none, each dialect, an invalid value
\* overridden by a valid one, and each way of ending with invalid options
OptionLists ==
    { <<>>,
      <<WithDialect(DialectPostgres)>>,
      <<WithTableName(<<"1", "m">>), WithDialect(DialectMysql), WithTableName(DefaultTableName)>>,
      <<WithDialect(dialectBegin)>>,
      <<WithDialect(DialectPostgres), WithDialect(dialectEnd)>>,
      <<WithTableName(<<>>)>>,
      <<WithTableName(<<"1", "m">>)>>,
      <<WithDialect(DialectMysql), WithTableName(<<"m", "-">>)>>,
      <<WithDialect(DialectMysql), FailingOption>> }

\* ------------------------------------------------------------------------
\* State
\* ------------------------------------------------------------------------

VARIABLES
    migs,                \* the caller's append-only migration sequence
    db,                  \* the committed database
    tx,                  \* the open transaction's working copy
    pc,                  \* where the current Apply call stands
    migrations,          \* Apply's argument: a prefix of migs
    opts,                \* Apply's opts after the option loop
    lastAppliedVersion,  \* the value scanned from the max-version query
    version,             \* the loop variable of the migration loop (1-based)
    stmts,               \* SplitStatements(migration) of the current migration
    si,                  \* how many of stmts have been executed
    trace,               \* the database calls this Apply call has issued
    err,                 \* what the call returns
    pre,                 \* history: the committed database when the call began
    prev                 \* history: the call before this one

\* the state of one SplitStatements call and of one validateOptions call,
\* each taken on its own (SpecSplit, SpecValidate)
VARIABLES
    src,                 \* SplitStatements' argument s
    scan,                \* SplitStatements' locals: i, out, b and the mode flags
    phase,               \* "off", "scan" (in the for loop) or "done" (returned)
    cfg,                 \* validateOptions' argument
    verdict,             \* "unchecked", or what validateOptions returned
    options              \* the userOptions of an option loop taken on its own

\* two Apply calls running at once against one database (SpecConcurrent)
VARIABLES
    sessions             \* the database engine and each call's locals and writes

applyVars == <<migs, db, tx, pc, migrations, opts, lastAppliedVersion, version,
               stmts, si, trace, err, pre, prev>>

pureVars == <<src, scan, phase, cfg, verdict, options, sessions>>

vars == <<migs, db, tx, pc, migrations, opts, lastAppliedVersion, version,
          stmts, si, trace, err, pre, prev, src, scan, phase, cfg, verdict, options,
          sessions>>

\* an error value: what failed, the migration version and statement index the
\* message gives, the table name it quotes, and whether a rollback error is
\* joined to it
NoErr == [kind |-> "nil", v |-> 0, i |-> 0, table |-> <<>>, rb |-> FALSE]

Err(kind, v, i) == [kind |-> kind, v |-> v, i |-> i, table |-> <<>>, rb |-> FALSE]

\* an error whose message quotes a table name (%q of opts.TableName)
ErrNaming(kind, table) == [Err(kind, 0, 0) EXCEPT !.table = table]

Call(op, v, i, ok) == [op |-> op, v |-> v, i |-> i, ok |-> ok]

\* no concurrent calls are under way
NoSessions == [engine |-> "none", of |-> <<>>]

NoPrev == [called |-> FALSE, n |-> 0, TableName |-> <<>>, ok |-> FALSE, fresh |-> FALSE]

\* no SplitStatements or validateOptions call of its own is under way
PureIdle ==
    /\ src = <<>>
    /\ scan = ScanInit
    /\ phase = "off"
    /\ cfg = DefaultOptions
    /\ verdict = "unchecked"
    /\ options = <<>>
    /\ sessions = NoSessions

Init ==
    /\ PureIdle
    /\ migs \in MigrationSequences
    /\ db = FreshDB
    /\ tx = FreshDB
    /\ pc = "idle"
    /\ migrations = <<>>
    /\ opts = DefaultOptions
    /\ lastAppliedVersion = 0
    /\ version = 0
    /\ stmts = <<>>
    /\ si = 0
    /\ trace = <<>>
    /\ err = NoErr
    /\ pre = FreshDB
    /\ prev = NoPrev

\* ------------------------------------------------------------------------
\* Apply
\* ------------------------------------------------------------------------

\* mutants of the skip test: one position too many, and one too few
alreadyAppliedSkipsNext(v, last) == v <= last + 1

alreadyAppliedStrict(v, last) == v < last

\* the test of the migration loop that skips a migration
alreadyApplied(v, last) == v <= last

\* mutant of the loop bound: the last migration of the slice is never reached
RECURSIVE NextPendingStopsEarly(_, _, _)
NextPendingStopsEarly(from, last, n) ==
    IF from >= n THEN n + 1
    ELSE IF alreadyApplied(from, last) THEN NextPendingStopsEarly(from + 1, last, n)
    ELSE from

\* the first position from `from` on that the loop does not skip (n + 1: none)
RECURSIVE NextPending(_, _, _)
NextPending(from, last, n) ==
    IF from > n THEN n + 1
    ELSE IF alreadyApplied(from, last) THEN NextPending(from + 1, last, n)
    ELSE from

\* mutant of the migration loop: a migration that splits into no statement
\* ends the loop unrecorded
LoopFromDropsEmpty(from, last) ==
    LET v == NextPending(from, last, Len(migrations))
        ss == IF v <= Len(migrations) THEN SplitStatements(migrations[v]) ELSE <<>>
    IN  /\ version' = v
        /\ stmts' = ss
        /\ si' = 0
        /\ pc' = IF v > Len(migrations) \/ ss = <<>> THEN "commit" ELSE "stmt"

\* the migration loop run from position `from` up to its next database call:
\* a statement of a pending migration, the insert of a pending migration with
\* no statement, or (the loop over, fn returning nil) InTx's commit
LoopFrom(from, last) ==
    LET v == NextPending(from, last, Len(migrations))
        ss == IF v <= Len(migrations) THEN SplitStatements(migrations[v]) ELSE <<>>
    IN  /\ version' = v
        /\ stmts' = ss
        /\ si' = 0
        /\ pc' = IF v > Len(migrations) THEN "commit"
                 ELSE IF ss = <<>> THEN "insert"
                 ELSE "stmt"

\* mutant of the error return: the failed call is attempted again
FailRetries(op, e) ==
    /\ trace' = Append(trace, Call(op, e.v, e.i, FALSE))
    /\ err' = e
    /\ pc' = pc
    /\ UNCHANGED <<migs, db, tx, migrations, opts, lastAppliedVersion, version,
                   stmts, si, pre, prev>>

\* mutant of the error return: InTx goes on to commit
FailCommits(op, e) ==
    /\ trace' = Append(trace, Call(op, e.v, e.i, FALSE))
    /\ err' = e
    /\ pc' = "commit"
    /\ UNCHANGED <<migs, db, tx, migrations, opts, lastAppliedVersion, version,
                   stmts, si, pre, prev>>

\* fn returns e: InTx goes on to roll back
Fail(op, e) ==
    /\ trace' = Append(trace, Call(op, e.v, e.i, FALSE))
    /\ err' = e
    /\ pc' = "rollback"
    /\ UNCHANGED <<migs, db, tx, migrations, opts, lastAppliedVersion, version,
                   stmts, si, pre, prev>>

\* Apply up to the dispatch on opts.Dialect
Apply(n, userOptions) ==
    /\ pc \in {"idle", "done"}
    /\ UNCHANGED pureVars
    /\ LET r == ApplyOptions(DefaultOptions, userOptions, 1)
       IN  /\ opts' = r.opts
           /\ IF r.failed # 0
              THEN /\ err' = Err("issue with option", 0, r.failed)
                   /\ pc' = "done"
              ELSE IF validateOptions(r.opts) # "nil"
              THEN /\ err' = Err("invalid options", 0, 0)
                   /\ pc' = "done"
              ELSE /\ err' = NoErr
                   /\ pc' = "begin"
    /\ migrations' = SubSeq(migs, 1, n)
    /\ prev' = IF pc = "done"
               THEN [called |-> TRUE, n |-> Len(migrations), TableName |-> opts.TableName,
                     ok |-> err.kind = "nil", fresh |-> pre = FreshDB]
               ELSE prev
    /\ pre' = db
    /\ trace' = <<>>
    /\ lastAppliedVersion' = 0
    /\ version' = 0
    /\ stmts' = <<>>
    /\ si' = 0
    /\ UNCHANGED <<migs, db, tx>>

\* InTx: db.BeginTx
InTxBegin(ok) ==
    /\ pc = "begin"
    /\ UNCHANGED pureVars
    /\ trace' = Append(trace, Call("begin", 0, 0, ok))
    /\ IF ok
       THEN /\ tx' = db
            /\ pc' = "create"
            /\ err' = err
       ELSE /\ tx' = tx
            /\ pc' = "done"
            /\ err' = Err("begin", 0, 0)
    /\ UNCHANGED <<migs, db, migrations, opts, lastAppliedVersion, version,
                   stmts, si, pre, prev>>

\* mutant of the create step: its error does not quote the table name
CreateTableUnnamed(ok) ==
    /\ pc = "create"
    /\ UNCHANGED pureVars
    /\ IF ok
       THEN /\ tx' = CreateTableIfNotExists(tx, opts.TableName)
            /\ trace' = Append(trace, Call("create", 0, 0, TRUE))
            /\ pc' = "readmax"
            /\ UNCHANGED <<migs, db, migrations, opts, lastAppliedVersion, version,
                           stmts, si, err, pre, prev>>
       ELSE Fail("create", Err("create", 0, 0))

\* applySqlite, applyMysql, applyPostgres: tx.ExecContext(ctx, createStmt)
CreateTable(ok) ==
    /\ pc = "create"
    /\ UNCHANGED pureVars
    /\ IF ok
       THEN /\ tx' = CreateTableIfNotExists(tx, opts.TableName)
            /\ trace' = Append(trace, Call("create", 0, 0, TRUE))
            /\ pc' = "readmax"
            /\ UNCHANGED <<migs, db, migrations, opts, lastAppliedVersion, version,
                           stmts, si, err, pre, prev>>
       ELSE Fail("create", ErrNaming("create", opts.TableName))

\* mutant of the read: a recorded version beyond the end of the slice is
\* returned as an error
ReadLastRejectsShortList(ok) ==
    /\ pc = "readmax"
    /\ UNCHANGED pureVars
    /\ IF ok /\ SelectMaxVersion(tx, opts.TableName) > Len(migrations)
       THEN /\ trace' = Append(trace, Call("readmax", 0, 0, TRUE))
            /\ err' = Err("mismatch", 0, 0)
            /\ pc' = "rollback"
            /\ UNCHANGED <<migs, db, tx, migrations, opts, lastAppliedVersion, version,
                           stmts, si, pre, prev>>
       ELSE IF ok
       THEN /\ lastAppliedVersion' = SelectMaxVersion(tx, opts.TableName)
            /\ trace' = Append(trace, Call("readmax", 0, 0, TRUE))
            /\ LoopFrom(1, lastAppliedVersion')
            /\ UNCHANGED <<migs, db, tx, migrations, opts, err, pre, prev>>
       ELSE Fail("readmax", Err("readmax", 0, 0))

\* tx.QueryRowContext(ctx, queryLast).Scan(&lastAppliedVersion), and the loop
\* up to its first database call
ReadLast(ok) ==
    /\ pc = "readmax"
    /\ UNCHANGED pureVars
    /\ IF ok
       THEN /\ lastAppliedVersion' = SelectMaxVersion(tx, opts.TableName)
            /\ trace' = Append(trace, Call("readmax", 0, 0, TRUE))
            /\ LoopFrom(1, lastAppliedVersion')
            /\ UNCHANGED <<migs, db, tx, migrations, opts, err, pre, prev>>
       ELSE Fail("readmax", Err("readmax", 0, 0))

\* mutant of the statement loop: the error carries the 0-based loop index
ExecStmtZeroBased(ok) ==
    /\ pc = "stmt"
    /\ UNCHANGED pureVars
    /\ IF ok
       THEN /\ tx' = ExecStatement(tx, version, si + 1, stmts[si + 1])
            /\ trace' = Append(trace, Call("stmt", version, si + 1, TRUE))
            /\ si' = si + 1
            /\ pc' = IF si + 1 = Len(stmts) THEN "insert" ELSE "stmt"
            /\ UNCHANGED <<migs, db, migrations, opts, lastAppliedVersion, version,
                           stmts, err, pre, prev>>
       ELSE Fail("stmt", Err("stmt", version, si))

\* mutant of the statement loop: the statements are taken last to first
ExecStmtReversed(ok) ==
    /\ pc = "stmt"
    /\ UNCHANGED pureVars
    /\ IF ok
       THEN /\ tx' = ExecStatement(tx, version, Len(stmts) - si, stmts[Len(stmts) - si])
            /\ trace' = Append(trace, Call("stmt", version, Len(stmts) - si, TRUE))
            /\ si' = si + 1
            /\ pc' = IF si + 1 = Len(stmts) THEN "insert" ELSE "stmt"
            /\ UNCHANGED <<migs, db, migrations, opts, lastAppliedVersion, version,
                           stmts, err, pre, prev>>
       ELSE Fail("stmt", Err("stmt", version, Len(stmts) - si))

\* tx.ExecContext(ctx, stmt) for statement si + 1 of the migration at version
ExecStmt(ok) ==
    /\ pc = "stmt"
    /\ UNCHANGED pureVars
    /\ IF ok
       THEN /\ tx' = ExecStatement(tx, version, si + 1, stmts[si + 1])
            /\ trace' = Append(trace, Call("stmt", version, si + 1, TRUE))
            /\ si' = si + 1
            /\ pc' = IF si + 1 = Len(stmts) THEN "insert" ELSE "stmt"
            /\ UNCHANGED <<migs, db, migrations, opts, lastAppliedVersion, version,
                           stmts, err, pre, prev>>
       ELSE Fail("stmt", Err("stmt", version, si + 1))

\* mutant of the insert: issued on the connection pool (db.ExecContext), so
\* outside the transaction
InsertVersionOutsideTx(ok) ==
    /\ pc = "insert"
    /\ UNCHANGED pureVars
    /\ IF ok /\ PrimaryKeyAllows(db, opts.TableName, version)
             /\ PrimaryKeyAllows(tx, opts.TableName, version)
             /\ db.tables[opts.TableName].exists
       THEN /\ db' = InsertVersionRow(db, opts.TableName, version)
            /\ tx' = InsertVersionRow(tx, opts.TableName, version)
            /\ trace' = Append(trace, Call("insert", version, 0, TRUE))
            /\ LoopFrom(version + 1, lastAppliedVersion)
            /\ UNCHANGED <<migs, migrations, opts, lastAppliedVersion, err, pre, prev>>
       ELSE Fail("insert", Err("insert", version, 0))

\* tx.ExecContext(ctx, insertStmt, version), and the loop up to its next
\* database call
InsertVersion(ok) ==
    /\ pc = "insert"
    /\ UNCHANGED pureVars
    /\ IF ok /\ PrimaryKeyAllows(tx, opts.TableName, version)
       THEN /\ tx' = InsertVersionRow(tx, opts.TableName, version)
            /\ trace' = Append(trace, Call("insert", version, 0, TRUE))
            /\ LoopFrom(version + 1, lastAppliedVersion)
            /\ UNCHANGED <<migs, db, migrations, opts, lastAppliedVersion, err, pre, prev>>
       ELSE Fail("insert", Err("insert", version, 0))

\* InTx: tx.Commit.  A commit that reports an error has either not taken
\* place or has taken place whole.
InTxCommit(ok, durable) ==
    /\ pc = "commit"
    /\ UNCHANGED pureVars
    /\ trace' = Append(trace, Call("commit", 0, 0, ok))
    /\ db' = IF ok \/ durable THEN tx ELSE db
    /\ err' = IF ok THEN NoErr ELSE Err("commit", 0, 0)
    /\ pc' = "done"
    /\ UNCHANGED <<migs, tx, migrations, opts, lastAppliedVersion, version,
                   stmts, si, pre, prev>>

\* mutant of the rollback: a rollback error is returned in place of fn's
InTxRollbackMasks(ok) ==
    /\ pc = "rollback"
    /\ UNCHANGED pureVars
    /\ trace' = Append(trace, Call("rollback", 0, 0, ok))
    /\ err' = IF ok THEN err ELSE [kind |-> "rollback", v |-> 0, i |-> 0, table |-> <<>>, rb |-> TRUE]
    /\ pc' = "done"
    /\ UNCHANGED <<migs, db, tx, migrations, opts, lastAppliedVersion, version,
                   stmts, si, pre, prev>>

\* InTx: tx.Rollback after fn returned an error; a failed rollback is joined
\* to the error and the transaction's work is dropped either way
InTxRollback(ok) ==
    /\ pc = "rollback"
    /\ UNCHANGED pureVars
    /\ trace' = Append(trace, Call("rollback", 0, 0, ok))
    /\ err' = [err EXCEPT !.rb = ~ok]
    /\ pc' = "done"
    /\ UNCHANGED <<migs, db, tx, migrations, opts, lastAppliedVersion, version,
                   stmts, si, pre, prev>>

Next ==
    \/ \E n \in 0 .. MaxMigs, userOptions \in OptionLists : Apply(n, userOptions)
    \/ \E ok \in BOOLEAN : InTxBegin(ok)
    \/ \E ok \in BOOLEAN : CreateTable(ok)
    \/ \E ok \in BOOLEAN : ReadLast(ok)
    \/ \E ok \in BOOLEAN : ExecStmt(ok)
    \/ \E ok \in BOOLEAN : InsertVersion(ok)
    \/ \E ok \in BOOLEAN, durable \in BOOLEAN : InTxCommit(ok, durable)
    \/ \E ok \in BOOLEAN : InTxRollback(ok)

Spec == Init /\ [][Next]_vars

\* ------------------------------------------------------------------------
\* validateOptions and SplitStatements on their own
\* ------------------------------------------------------------------------

MaxNameLen == 3

MaxLen == 6

Strings(alphabet, n) == UNION {[1 .. k -> alphabet] : k \in 0 .. n}

\* no Apply call is under way and none was made
ApplyIdle ==
    /\ migs = <<>>
    /\ db = FreshDB
    /\ tx = FreshDB
    /\ pc = "idle"
    /\ migrations = <<>>
    /\ opts = DefaultOptions
    /\ lastAppliedVersion = 0
    /\ version = 0
    /\ stmts = <<>>
    /\ si = 0
    /\ trace = <<>>
    /\ err = NoErr
    /\ pre = FreshDB
    /\ prev = NoPrev

MaxOptions == 3

\* Option values: each dialect value around the enumeration but the default,
\* valid and invalid table names, and an Option that returns an error
OptionPool ==
    {WithDialect(d) : d \in {dialectBegin, DialectPostgres, DialectMysql, dialectEnd}}
        \cup {WithTableName(name) : name \in {<<>>, <<"t">>, <<"1", "m">>, DefaultTableName}}
        \cup {FailingOption}

OptionInputs == Strings(OptionPool, MaxOptions)

OptionsInit ==
    /\ ApplyIdle
    /\ src = <<>>
    /\ scan = ScanInit
    /\ phase = "off"
    /\ cfg = DefaultOptions
    /\ verdict = "unchecked"
    /\ options \in OptionInputs
    /\ sessions = NoSessions

\* Apply from its first line to the dispatch on the dialect: the defaults,
\* the option loop and validateOptions
Configure ==
    /\ verdict = "unchecked"
    /\ LET r == ApplyOptions(DefaultOptions, options, 1)
       IN  /\ cfg' = r.opts
           /\ verdict' = IF r.failed # 0 THEN "issue with option"
                         ELSE validateOptions(r.opts)
    /\ UNCHANGED <<src, scan, phase, options, sessions>>
    /\ UNCHANGED applyVars

SpecOptions == OptionsInit /\ [][Configure]_vars

\* a letter of each case, the underscore, a digit and a character outside
\* [A-Za-z0-9_]
NameChars == {"a", "Z", "_", "1", "-"}

\* the zero value, the three dialects, and values on both sides of them
DialectInputs == (dialectBegin - 1) .. (dialectEnd + 1)

ConfigInputs ==
    {[Dialect |-> d, TableName |-> name] :
        d \in DialectInputs, name \in Strings(NameChars, MaxNameLen)}

ValidateInit ==
    /\ ApplyIdle
    /\ src = <<>>
    /\ scan = ScanInit
    /\ phase = "off"
    /\ cfg \in ConfigInputs
    /\ verdict = "unchecked"
    /\ options = <<>>
    /\ sessions = NoSessions

\* validateOptions(cfg)
Validate ==
    /\ verdict = "unchecked"
    /\ verdict' = validateOptions(cfg)
    /\ UNCHANGED <<src, scan, phase, cfg, options, sessions>>
    /\ UNCHANGED applyVars

SpecValidate == ValidateInit /\ [][Validate]_vars

\* the alphabets of the scripts given to SplitStatements: each holds the
\* semicolon and the characters of one or two lexical constructs
SplitAlphabets ==
    { {"'", ";", "a", "\\"},
      {"\"", Backtick, ";", "a"},
      {"\"", "\\", ";", "a"},
      {"-", "\n", ";", "a"},
      {"/", "*", ";", "a"},
      {"$", "1", ";", " "},
      {"$", "'", ";", "-"},
      {"'", "-", "\n", ";"},
      {"/", "*", "'", ";"},
      {" ", "\n", ";", "a"},
      {"$", "a", "_", ";"},
      {"$", "1", ";"},
      {"/", "*", ";"},
      {"/", "*"} }

\* strings over an alphabet of four up to MaxLen long, over a smaller one
\* one longer for each character less
SplitInputs ==
    UNION {Strings(alphabet, MaxLen + 4 - Cardinality(alphabet)) :
               alphabet \in SplitAlphabets}

SplitInit ==
    /\ ApplyIdle
    /\ src \in SplitInputs
    /\ scan = ScanInit
    /\ phase = "scan"
    /\ cfg = DefaultOptions
    /\ verdict = "unchecked"
    /\ options = <<>>
    /\ sessions = NoSessions

\* one iteration of the for loop of SplitStatements
SplitStep ==
    /\ phase = "scan"
    /\ scan.i < Len(src)
    /\ scan' = ScanStep(src, scan)
    /\ UNCHANGED <<src, phase, cfg, verdict, options, sessions>>
    /\ UNCHANGED applyVars

\* mutant of the return: what an open quote or dollar block has gathered is
\* dropped instead of flushed
SplitReturnDropsOpen ==
    /\ phase = "scan"
    /\ ~(scan.i < Len(src))
    /\ scan' = IF scan.inS \/ scan.inD \/ scan.inB \/ scan.dollarTag # <<>>
               THEN [scan EXCEPT !.b = <<>>]
               ELSE flush(scan)
    /\ phase' = "done"
    /\ UNCHANGED <<src, cfg, verdict, options, sessions>>
    /\ UNCHANGED applyVars

\* the loop has ended: the last flush, and the return of out
SplitReturn ==
    /\ phase = "scan"
    /\ ~(scan.i < Len(src))
    /\ scan' = flush(scan)
    /\ phase' = "done"
    /\ UNCHANGED <<src, cfg, verdict, options, sessions>>
    /\ UNCHANGED applyVars

SplitNext == SplitStep \/ SplitReturn

SpecSplit == SplitInit /\ [][SplitNext]_vars

\* the call is not suspended: the loop and the return go on while they can
SpecSplitFair == SplitInit /\ [][SplitNext]_vars /\ WF_vars(SplitNext)

\* ------------------------------------------------------------------------
\* Two Apply calls at once
\* ------------------------------------------------------------------------

Procs == {1, 2}

\* Three ways an engine with atomic transactions enforces the primary key;
\* in none of them does a transaction see the uncommitted writes of another.
\* "locking": a transaction reads what is committed, and an insert waits
\* while another open transaction holds the same key, then is checked
\* against the committed rows.  "snapshot": a transaction reads the database
\* as of BeginTx, and its commit is refused when one of its keys has been
\* committed meanwhile.  "mixed": reads are of the snapshot, inserts wait and
\* are checked as under "locking".
Engines == {"locking", "snapshot", "mixed"}

\* one call's locals and its transaction: the snapshot it reads (snapshot
\* engine) and its own uncommitted writes
NewSession ==
    [pc |-> "idle", snap |-> FreshDB, own |-> FreshDB,
     lastAppliedVersion |-> 0, version |-> 0, stmts |-> <<>>, si |-> 0,
     err |-> NoErr, wrote |-> FALSE]

Session(p) == sessions.of[p]

\* the writes of a transaction laid over a database
Merge(base, own) ==
    [tables |-> [t \in TableNames |->
                    [exists |-> base.tables[t].exists \/ own.tables[t].exists,
                     rows |-> base.tables[t].rows \o own.tables[t].rows]],
     log |-> base.log \o own.log]

\* the database as the queries of p's transaction see it
View(p) ==
    Merge(IF sessions.engine = "locking" THEN db ELSE Session(p).snap, Session(p).own)

\* the rows an insert of p's transaction is checked against
KeyView(p) ==
    Merge(IF sessions.engine = "snapshot" THEN Session(p).snap ELSE db, Session(p).own)

HoldsTx(q) == Session(q).pc \in {"create", "readmax", "stmt", "insert", "commit", "rollback"}

\* the insert of p waits for another open transaction that holds its key
Waits(p) ==
    /\ sessions.engine \in {"locking", "mixed"}
    /\ \E q \in Procs \ {p} :
           /\ HoldsTx(q)
           /\ Session(p).version \in RowSet(Session(q).own.tables[opts.TableName])

\* a key of p's transaction has been committed by another one
Conflicts(p) ==
    \E v \in RowSet(Session(p).own.tables[opts.TableName]) :
        ~PrimaryKeyAllows(db, opts.TableName, v)

\* the migration loop of one call from position `from` up to its next
\* database call
Advance(c, from) ==
    LET v == NextPending(from, c.lastAppliedVersion, Len(migrations))
        ss == IF v <= Len(migrations) THEN SplitStatements(migrations[v]) ELSE <<>>
    IN  [c EXCEPT !.version = v, !.stmts = ss, !.si = 0,
                  !.pc = IF v > Len(migrations) THEN "commit"
                         ELSE IF ss = <<>> THEN "insert"
                         ELSE "stmt"]

\* fn returns e: InTx goes on to roll back
Failed(c, e) == [c EXCEPT !.err = e, !.pc = "rollback"]

concFrame == <<migs, tx, pc, migrations, opts, lastAppliedVersion, version, stmts, si,
               trace, err, pre, prev, src, scan, phase, cfg, verdict, options>>

Becomes(p, c) ==
    sessions' = [sessions EXCEPT !.of[p] = c]

ConcInit ==
    /\ migs \in MigrationSequences
    /\ \E n \in 0 .. MaxMigs : migrations = SubSeq(migs, 1, n)
    /\ sessions \in {[engine |-> e, of |-> [p \in Procs |-> NewSession]] : e \in Engines}
    /\ db = FreshDB /\ tx = FreshDB /\ pre = FreshDB
    /\ pc = "idle" /\ opts = DefaultOptions
    /\ lastAppliedVersion = 0 /\ version = 0 /\ stmts = <<>> /\ si = 0
    /\ trace = <<>> /\ err = NoErr /\ prev = NoPrev
    /\ src = <<>> /\ scan = ScanInit /\ phase = "off"
    /\ cfg = DefaultOptions /\ verdict = "unchecked" /\ options = <<>>

\* Apply with no option: the defaults pass validation and applySqlite runs
ConcApply(p) ==
    /\ Session(p).pc = "idle"
    /\ Becomes(p, [Session(p) EXCEPT !.pc = "begin"])
    /\ UNCHANGED db /\ UNCHANGED concFrame

ConcBegin(p, ok) ==
    /\ Session(p).pc = "begin"
    /\ Becomes(p, IF ok
                  THEN [Session(p) EXCEPT
                            !.pc = "create",
                            !.snap = IF sessions.engine = "locking" THEN FreshDB ELSE db]
                  ELSE [Session(p) EXCEPT !.pc = "done", !.err = Err("begin", 0, 0)])
    /\ UNCHANGED db /\ UNCHANGED concFrame

ConcCreateTable(p, ok) ==
    /\ Session(p).pc = "create"
    /\ Becomes(p, IF ok
                  THEN [Session(p) EXCEPT
                            !.own = CreateTableIfNotExists(@, opts.TableName),
                            !.pc = "readmax"]
                  ELSE Failed(Session(p), ErrNaming("create", opts.TableName)))
    /\ UNCHANGED db /\ UNCHANGED concFrame

ConcReadLast(p, ok) ==
    /\ Session(p).pc = "readmax"
    /\ Becomes(p, IF ok
                  THEN Advance([Session(p) EXCEPT
                                    !.lastAppliedVersion =
                                        SelectMaxVersion(View(p), opts.TableName)], 1)
                  ELSE Failed(Session(p), Err("readmax", 0, 0)))
    /\ UNCHANGED db /\ UNCHANGED concFrame

ConcExecStmt(p, ok) ==
    LET c == Session(p)
    IN  /\ c.pc = "stmt"
        /\ Becomes(p, IF ok
                      THEN [c EXCEPT
                                !.own = ExecStatement(@, c.version, c.si + 1, c.stmts[c.si + 1]),
                                !.si = c.si + 1,
                                !.pc = IF c.si + 1 = Len(c.stmts) THEN "insert" ELSE "stmt"]
                      ELSE Failed(c, Err("stmt", c.version, c.si + 1)))
        /\ UNCHANGED db /\ UNCHANGED concFrame

ConcInsertVersion(p, ok) ==
    LET c == Session(p)
    IN  /\ c.pc = "insert"
        /\ ~Waits(p)
        /\ Becomes(p, IF ok /\ PrimaryKeyAllows(KeyView(p), opts.TableName, c.version)
                      THEN Advance([c EXCEPT
                                        !.own = InsertVersionRow(@, opts.TableName, c.version)],
                                   c.version + 1)
                      ELSE Failed(c, Err("insert", c.version, 0)))
        /\ UNCHANGED db /\ UNCHANGED concFrame

\* tx.Commit: refused on a key conflict; otherwise as in InTxCommit
ConcCommit(p, ok, durable) ==
    LET c == Session(p)
        lands == ~Conflicts(p) /\ (ok \/ durable)
    IN  /\ c.pc = "commit"
        /\ db' = IF lands THEN Merge(db, c.own) ELSE db
        /\ Becomes(p, [c EXCEPT !.pc = "done",
                                !.wrote = lands,
                                !.err = IF ok /\ ~Conflicts(p) THEN NoErr
                                        ELSE Err("commit", 0, 0)])
        /\ UNCHANGED concFrame

ConcRollback(p, ok) ==
    /\ Session(p).pc = "rollback"
    /\ Becomes(p, [Session(p) EXCEPT !.pc = "done", !.err.rb = ~ok])
    /\ UNCHANGED db /\ UNCHANGED concFrame

ConcNext ==
    \E p \in Procs :
        \/ ConcApply(p)
        \/ \E ok \in BOOLEAN : ConcBegin(p, ok)
        \/ \E ok \in BOOLEAN : ConcCreateTable(p, ok)
        \/ \E ok \in BOOLEAN : ConcReadLast(p, ok)
        \/ \E ok \in BOOLEAN : ConcExecStmt(p, ok)
        \/ \E ok \in BOOLEAN : ConcInsertVersion(p, ok)
        \/ \E ok \in BOOLEAN, durable \in BOOLEAN : ConcCommit(p, ok, durable)
        \/ \E ok \in BOOLEAN : ConcRollback(p, ok)

SpecConcurrent == ConcInit /\ [][ConcNext]_vars

\* ------------------------------------------------------------------------
\* Vocabulary of the properties
\* ------------------------------------------------------------------------

InCall == pc \in {"begin", "create", "readmax", "stmt", "insert", "commit", "rollback"}

Returned == pc = "done"

Succeeded == pc = "done" /\ err.kind = "nil"

\* the call passed the option loop and validateOptions
Dispatched == pc # "idle" /\ err.kind \notin {"issue with option", "invalid options"}

Recorded(d) == RowSet(d.tables[opts.TableName])

\* the maximum recorded version before the call, -1 for no row (or no table)
PriorMax == SelectMaxVersion(pre, opts.TableName)

Larger(a, b) == IF a >= b THEN a ELSE b

\* the statements of the migrations at positions from .. to, in order, as
\* [v, i, sql] entries
RECURSIVE StatementsOf(_, _)
StatementsOf(from, to) ==
    IF from > to THEN <<>>
    ELSE LET ss == SplitStatements(migs[from])
         IN  [k \in 1 .. Len(ss) |-> [v |-> from, i |-> k, sql |-> ss[k]]]
                 \o StatementsOf(from + 1, to)

\* the statement executions the call has issued for migrations, failed ones
\* included, as [v, i] pairs
RECURSIVE MigrationCalls(_)
MigrationCalls(tr) ==
    IF tr = <<>> THEN <<>>
    ELSE IF Head(tr).op = "stmt"
         THEN <<[v |-> Head(tr).v, i |-> Head(tr).i]>> \o MigrationCalls(Tail(tr))
         ELSE MigrationCalls(Tail(tr))

Positions(entries) == [k \in 1 .. Len(entries) |-> [v |-> entries[k].v, i |-> entries[k].i]]

IsPrefix(a, b) == Len(a) <= Len(b) /\ a = SubSeq(b, 1, Len(a))

Ops(tr) == {tr[k].op : k \in 1 .. Len(tr)}

\* this call repeats the call before it: same bookkeeping table, same
\* migration sequence, and the call before it succeeded
Repeats ==
    /\ Dispatched
    /\ prev.called /\ prev.ok
    /\ prev.TableName = opts.TableName
    /\ prev.n = Len(migrations)

\* the database after migrations 1 .. n were applied to a fresh one
AppliedToFresh(n) ==
    [tables |-> [FreshDB.tables EXCEPT ![opts.TableName] =
                    [exists |-> TRUE, rows |-> [k \in 1 .. n |-> k]]],
     log |-> StatementsOf(1, n)]

Last(s) == s[Len(s)]

\* a call as [op, v, i], its outcome left out
Step(c) == [op |-> c.op, v |-> c.v, i |-> c.i]

\* the steps of the call that InTx's fn issues
IsStatement(c) == c.op \in {"create", "readmax", "stmt", "insert"}

\* the first version the call has to apply
FirstPending == Larger(PriorMax, 0) + 1

\* the statements and the insert of the migrations at positions from .. to,
\* migration after migration
RECURSIVE MigrationOrder(_, _)
MigrationOrder(from, to) ==
    IF from > to THEN <<>>
    ELSE LET ss == SplitStatements(migs[from])
         IN  [k \in 1 .. Len(ss) |-> [op |-> "stmt", v |-> from, i |-> k]]
                 \o <<[op |-> "insert", v |-> from, i |-> 0]>>
                 \o MigrationOrder(from + 1, to)

\* The lexical structure of a script, told token by token: where a quoted
\* text, a comment or a dollar-quoted block starts and where its closer is
\* found.  Positions are 0-based; a token covers from .. to - 1.

Min(S) == CHOOSE k \in S : \A m \in S : k <= m

Occurs(s, k, p) == k + Len(p) <= Len(s) /\ SubSeq(s, k + 1, k + Len(p)) = p

TagRunes == Lower \cup Upper \cup Digit \cup {"_"}

\* the closer of a quoted text whose body is scanned from k on: the first
\* delimiter q that is neither doubled nor, in a single-quoted string, the
\* second half of a backslash pair
RECURSIVE QuoteClose(_, _, _)
QuoteClose(s, k, q) ==
    IF k >= Len(s) THEN [to |-> Len(s), closed |-> FALSE]
    ELSE IF q = "'" /\ At(s, k) = "\\" THEN QuoteClose(s, k + 2, q)
    ELSE IF At(s, k) # q THEN QuoteClose(s, k + 1, q)
    ELSE IF k + 1 < Len(s) /\ At(s, k + 1) = q THEN QuoteClose(s, k + 2, q)
    ELSE [to |-> k + 1, closed |-> TRUE]

\* the closer of a block comment, nested comments counted
RECURSIVE CommentClose(_, _, _)
CommentClose(s, k, depth) ==
    IF k >= Len(s) THEN [to |-> Len(s), closed |-> FALSE]
    ELSE IF Occurs(s, k, <<"/", "*">>) THEN CommentClose(s, k + 2, depth + 1)
    ELSE IF ~Occurs(s, k, <<"*", "/">>) THEN CommentClose(s, k + 1, depth)
    ELSE IF depth > 1 THEN CommentClose(s, k + 2, depth - 1)
    ELSE [to |-> k + 2, closed |-> TRUE]

Token(kind, from, open, end) ==
    [kind |-> kind, from |-> from, open |-> open, to |-> end.to, closed |-> end.closed]

TokenAt(s, i) ==
    LET c == At(s, i)
        one == [to |-> i + 1, closed |-> TRUE]
        newlines == {k \in (i + 2) .. (Len(s) - 1) : At(s, k) = "\n"}
        dollars == {k \in (i + 1) .. (Len(s) - 1) : At(s, k) = "$"}
    IN  IF Occurs(s, i, <<"-", "-">>)
        THEN Token("line", i, 2,
                   IF newlines = {} THEN [to |-> Len(s), closed |-> FALSE]
                   ELSE [to |-> Min(newlines) + 1, closed |-> TRUE])
        ELSE IF Occurs(s, i, <<"/", "*">>)
        THEN Token("block", i, 2, CommentClose(s, i + 2, 1))
        ELSE IF /\ c = "$"
                /\ dollars # {}
                /\ \A m \in (i + 1) .. (Min(dollars) - 1) : At(s, m) \in TagRunes
        THEN LET body == Min(dollars) + 1
                 tag == Slice(s, i, body)
                 again == {k \in body .. (Len(s) - 1) : Occurs(s, k, tag)}
             IN  Token("dollar", i, Len(tag),
                       IF again = {} THEN [to |-> Len(s), closed |-> FALSE]
                       ELSE [to |-> Min(again) + Len(tag), closed |-> TRUE])
        ELSE IF c \in {"'", "\"", Backtick}
        THEN Token("quoted", i, 1, QuoteClose(s, i + 1, c))
        ELSE IF c = ";" THEN Token("semicolon", i, 1, one)
        ELSE Token("text", i, 1, one)

RECURSIVE Lex(_, _)
Lex(s, i) ==
    IF i >= Len(s) THEN <<>>
    ELSE LET tok == TokenAt(s, i) IN <<tok>> \o Lex(s, tok.to)

Tokens(s) == Lex(s, 0)

TextOf(s, tok) == Slice(s, tok.from, tok.to)

Contains(s, piece) ==
    \E k \in 0 .. (Len(s) - Len(piece)) : SubSeq(s, k + 1, k + Len(piece)) = piece

\* the scan is in the loop, about to handle position scan.i
Scanning == phase = "scan" /\ scan.i < Len(src)

Within(tok) == tok.from <= scan.i /\ scan.i < tok.to

\* what the next iteration of the loop consumes is appended to b unchanged,
\* and nothing is flushed
CopiesVerbatim(nxt) ==
    /\ nxt.out = scan.out
    /\ nxt.b = scan.b \o Slice(src, scan.i, nxt.i)

IsComment(tok) == tok.kind \in {"line", "block"}

\* the text of a script outside its comments and its top-level semicolons
RECURSIVE KeptText(_, _)
KeptText(s, toks) ==
    IF toks = <<>> THEN <<>>
    ELSE (IF IsComment(Head(toks)) \/ Head(toks).kind = "semicolon"
          THEN <<>> ELSE TextOf(s, Head(toks)))
             \o KeptText(s, Tail(toks))

RECURSIVE Flatten(_)
Flatten(ss) == IF ss = <<>> THEN <<>> ELSE Head(ss) \o Flatten(Tail(ss))

IsInk(c) == c \notin Space

DefaultMode(st) ==
    /\ ~st.inS /\ ~st.inD /\ ~st.inB
    /\ ~st.inLineComment /\ st.inBlockComment = 0
    /\ st.dollarTag = <<>>

\* the segments of a script between its top-level semicolons, the last one
\* included, comments left out
RECURSIVE Segments(_, _, _)
Segments(s, toks, cur) ==
    IF toks = <<>> THEN <<cur>>
    ELSE IF Head(toks).kind = "semicolon" THEN <<cur>> \o Segments(s, Tail(toks), <<>>)
    ELSE IF IsComment(Head(toks)) THEN Segments(s, Tail(toks), cur)
    ELSE Segments(s, Tail(toks), cur \o TextOf(s, Head(toks)))

\* a segment without its leading and trailing whitespace
Trimmed(seg) ==
    LET ink == {k \in 1 .. Len(seg) : IsInk(seg[k])}
    IN  IF ink = {} THEN <<>> ELSE SubSeq(seg, Min(ink), Max(ink))

NotEmpty(seg) == seg # <<>>

TrimmedSegments(s) ==
    LET segs == Segments(s, Tokens(s), <<>>)
    IN  SelectSeq([k \in 1 .. Len(segs) |-> Trimmed(segs[k])], NotEmpty)

TopLevelSemicolons(s) ==
    Cardinality({k \in 1 .. Len(Tokens(s)) : Tokens(s)[k].kind = "semicolon"})

\* how many calls of trace tr are of one of the operations ops
Count(tr, ops) == Cardinality({k \in 1 .. Len(tr) : tr[k].op \in ops})

\* the scan is about to handle a backslash that has a character after it
AtBackslashPair == Scanning /\ At(src, scan.i) = "\\" /\ scan.i + 1 < Len(src)

\* the next iteration consumes two characters as a pair and stays in its mode
ConsumesPair(nxt) ==
    /\ nxt.i = scan.i + 2
    /\ CopiesVerbatim(nxt)
    /\ nxt.inS = scan.inS /\ nxt.inD = scan.inD /\ nxt.inB = scan.inB

\* the next iteration consumes one character, copied, and stays in its mode
ConsumesOne(nxt) ==
    /\ nxt.i = scan.i + 1
    /\ CopiesVerbatim(nxt)
    /\ nxt.inS = scan.inS /\ nxt.inD = scan.inD /\ nxt.inB = scan.inB

\* the delimiter of the quoted mode the scan is in ("" outside quoted text)
QuoteOf(st) ==
    IF st.inS THEN "'" ELSE IF st.inD THEN "\"" ELSE IF st.inB THEN Backtick ELSE ""

EndsWith(s, piece) ==
    Len(piece) <= Len(s) /\ SubSeq(s, Len(s) - Len(piece) + 1, Len(s)) = piece

\* the value the last Option of a kind in the list gives, dflt if there is none
LastSet(list, field, dflt) ==
    LET ks == {k \in 1 .. Len(list) : list[k].set = field}
    IN  IF ks = {} THEN dflt ELSE list[Max(ks)].value

\* the lexical modes that are active in a scan state
ActiveModes(st) ==
    {m \in {"inS", "inD", "inB", "inLineComment"} : st[m]}
        \cup (IF st.inBlockComment > 0 THEN {"inBlockComment"} ELSE {})
        \cup (IF st.dollarTag # <<>> THEN {"dollarTag"} ELSE {})

\* The positions of a script that are left once comments, top-level
\* semicolons and each statement's outer whitespace are taken away.

TokenOver(toks, p) == CHOOSE k \in 1 .. Len(toks) : toks[k].from <= p /\ p < toks[k].to

\* positions outside comments and top-level semicolons
Plain(s, toks) ==
    {p \in 0 .. (Len(s) - 1) :
        toks[TokenOver(toks, p)].kind \notin {"line", "block", "semicolon"}}

\* how many top-level semicolons come before position p
SegmentOf(toks, p) ==
    Cardinality({k \in 1 .. Len(toks) : toks[k].kind = "semicolon" /\ toks[k].from < p})

Remaining(s) ==
    LET toks == Tokens(s)
        plain == Plain(s, toks)
        ink == {p \in plain : IsInk(At(s, p))}
    IN  {p \in plain :
            \E a, b \in ink :
                /\ a <= p /\ p <= b
                /\ SegmentOf(toks, a) = SegmentOf(toks, p)
                /\ SegmentOf(toks, b) = SegmentOf(toks, p)}

\* the characters of s at the positions P, in order
RECURSIVE InOrder(_, _)
InOrder(s, P) ==
    IF P = {} THEN <<>> ELSE <<At(s, Min(P))>> \o InOrder(s, P \ {Min(P)})

UnsupportedDialect(d) == d \notin {DialectSqlite, DialectPostgres, DialectMysql}

UnsafeTableName(name) ==
    \/ name = <<>>
    \/ Head(name) \in Digit
    \/ \E k \in 1 .. Len(name) : name[k] \notin (Lower \cup Upper \cup Digit \cup {"_"})

\* ------------------------------------------------------------------------
\* Properties
\* ------------------------------------------------------------------------

\* C1: in every reachable state the committed rows of each bookkeeping table
\* are the versions 1..N for some N >= 0, one row per version: never sparse,
\* never a version twice.
C1_PrefixInvariant ==
    \A t \in TableNames :
        LET rows == db.tables[t].rows
        IN  /\ RowSet(db.tables[t]) = 1 .. Len(rows)
            /\ Cardinality(RowSet(db.tables[t])) = Len(rows)

\* a call has failed on a migration statement after successful calls had
\* recorded two or more versions
C1_Witness ==
    /\ Returned /\ err.kind = "stmt"
    /\ Len(db.tables[DefaultTableName].rows) >= 2
    /\ prev.called /\ prev.ok /\ prev.n >= 2

\* C2: when a statement of a pending migration k fails, the committed
\* database after the call is the one before the call: no row for k, no row
\* above the prior maximum, no row of a migration that ran earlier in the
\* call.
C2_FailureLeavesNothing ==
    (Returned /\ err.kind = "stmt") =>
        /\ db = pre
        /\ err.v \notin Recorded(db)
        /\ \A v \in Recorded(db) : v <= PriorMax
        /\ \A k \in 1 .. Len(trace) :
               trace[k].op = "insert" => trace[k].v \notin Recorded(db)

\* a statement failed after an earlier migration of the same call had run
\* and been recorded in the transaction
C2_Witness ==
    /\ Returned /\ err.kind = "stmt"
    /\ \E k \in 1 .. Len(trace) : trace[k].op = "insert" /\ trace[k].ok
    /\ tx # db

\* C3: an Apply call never executes a statement of a migration whose version
\* a committed earlier call has recorded in its bookkeeping table.
C3_AtMostOnce ==
    \A k \in 1 .. Len(trace) :
        trace[k].op = "stmt" => trace[k].v \notin RowSet(pre.tables[opts.TableName])

\* a call that executes statements on a database with recorded versions
C3_Witness ==
    /\ "stmt" \in Ops(trace)
    /\ RowSet(pre.tables[opts.TableName]) # {}

\* C4: the call reads the maximum recorded version L once, -1 for an empty
\* table, and the migration statements it executes are those of the
\* positions above L, in order: a prefix of them while it runs or when a
\* step fails, all of them when the loop has ended.
C4_ExecutesExactlyPending ==
    LET reads == {k \in 1 .. Len(trace) : trace[k].op = "readmax"}
        read == \E k \in reads : trace[k].ok
        pending == Positions(StatementsOf(Larger(lastAppliedVersion, 0) + 1, Len(migrations)))
    IN  /\ Cardinality(reads) <= 1
        /\ read =>
             /\ lastAppliedVersion = PriorMax
             /\ (lastAppliedVersion = -1) = (Recorded(pre) = {})
             /\ IsPrefix(MigrationCalls(trace), pending)
             /\ "commit" \in Ops(trace) \/ pc = "commit" => MigrationCalls(trace) = pending
        /\ ~read => MigrationCalls(trace) = <<>>

\* the loop has ended after skipping a recorded migration and executing the
\* statements of a pending one
C4_Witness ==
    /\ pc = "commit"
    /\ lastAppliedVersion >= 1
    /\ "stmt" \in Ops(trace)

\* C5: when Apply returns success for n migrations on a table whose prior
\* maximum was L, the committed rows are 1..max(L, n) and the committed
\* statements are those before the call followed by every statement of the
\* migrations L+1..n; with an empty migration list nothing is recorded.
C5_SuccessAppliesAllPending ==
    Succeeded =>
        LET n == Len(migrations)
            L == PriorMax
        IN  /\ Recorded(db) = 1 .. Larger(L, n)
            /\ db.log = pre.log \o StatementsOf(Larger(L, 0) + 1, n)
            /\ \A v \in (Larger(L, 0) + 1) .. n :
                   /\ [op |-> "insert", v |-> v, i |-> 0, ok |-> TRUE] \in
                          {trace[k] : k \in 1 .. Len(trace)}
                   /\ \A i \in 1 .. Len(SplitStatements(migrations[v])) :
                          [op |-> "stmt", v |-> v, i |-> i, ok |-> TRUE] \in
                              {trace[k] : k \in 1 .. Len(trace)}
            /\ n = 0 => /\ db.tables[opts.TableName].rows = pre.tables[opts.TableName].rows
                        /\ db.log = pre.log

\* a successful call that found versions recorded and applied further ones
C5_Witness ==
    /\ Succeeded
    /\ PriorMax >= 1
    /\ Len(migrations) > PriorMax
    /\ Len(db.log) > Len(pre.log)

\* an empty migration list on a fresh database
C5_WitnessEmpty ==
    /\ Succeeded
    /\ migrations = <<>>
    /\ pre = FreshDB

\* C6: a call that repeats a successful call (same migration sequence, same
\* bookkeeping table) leaves the committed database as the first call left
\* it and runs into no error of its own making: it succeeds unless the
\* database fails one of begin, create table, read of the maximum, commit.
C6_ReapplyIsIdempotent ==
    Repeats =>
        /\ db = pre
        /\ Returned =>
             /\ err.kind \in {"nil", "begin", "create", "readmax", "commit"}
             /\ (\A k \in 1 .. Len(trace) : trace[k].ok) => err = NoErr

\* the second of two successful calls with the same two or more migrations
C6_Witness ==
    /\ Repeats
    /\ Succeeded
    /\ Len(migrations) >= 2
    /\ db.log # <<>>

\* C7 as stated: the second of two consecutive calls with the same
\* migration sequence executes no statement but the read of the maximum
\* recorded version.
C7_OnlyTheRead ==
    Repeats =>
        \A k \in 1 .. Len(trace) :
            (trace[k].ok /\ trace[k].op \in {"create", "readmax", "stmt", "insert"})
                => trace[k].op = "readmax"

\* C7 amended: the second call executes no migration statement and no
\* insert; the statements it executes are CREATE TABLE IF NOT EXISTS, which
\* finds the table and changes nothing, and the read of the maximum.
C7_NoMigrationWork ==
    Repeats =>
        /\ Ops(trace) \subseteq {"begin", "create", "readmax", "commit", "rollback"}
        /\ pc \notin {"stmt", "insert"}
        /\ pc \in {"readmax", "commit", "rollback"} => tx = pre
        /\ (\E k \in 1 .. Len(trace) : trace[k].op = "readmax" /\ trace[k].ok)
               => (migrations = <<>> \/ lastAppliedVersion >= Len(migrations))

\* the second call has read the maximum and its loop has skipped every
\* migration of a sequence of two or more
C7_Witness ==
    /\ Repeats
    /\ pc = "commit"
    /\ Len(migrations) >= 2
    /\ db.log # <<>>

\* C8: a successful call with n migrations ends in one and the same
\* database, rows 1..n and the statements of migrations 1..n in order,
\* whether it ran alone on a fresh database or after a successful call
\* with a prefix of the sequence on a fresh database.
C8_IncrementalEqualsDirect ==
    LET n == Len(migrations)
    IN  /\ (Succeeded /\ pre = FreshDB) => db = AppliedToFresh(n)
        /\ (Succeeded /\ prev.called /\ prev.ok /\ prev.fresh
              /\ prev.TableName = opts.TableName /\ prev.n <= n)
           => db = AppliedToFresh(n)

\* a proper, non-empty prefix was applied first, then the whole sequence
C8_Witness ==
    /\ Succeeded
    /\ prev.called /\ prev.ok /\ prev.fresh
    /\ prev.TableName = opts.TableName
    /\ 1 <= prev.n /\ prev.n < Len(migrations)
    /\ pre # FreshDB
    /\ Len(db.log) > Len(pre.log)

C10_InvalidOptionsTouchNothing ==
    (pc # "idle" /\ err.kind # "issue with option"
        /\ (UnsupportedDialect(opts.Dialect) \/ UnsafeTableName(opts.TableName)))
    => /\ Returned
       /\ err.kind = "invalid options"
       /\ trace = <<>>
       /\ db = pre

\* a call with a table name starting with a digit, on a database that
\* holds applied migrations
C10_Witness ==
    /\ Returned
    /\ err.kind = "invalid options"
    /\ opts.TableName # <<>> /\ Head(opts.TableName) \in Digit
    /\ db # FreshDB

\* C11: validateOptions accepts a configuration exactly when its dialect is
\* one of SQLite, PostgreSQL and MySQL and its table name is non-empty, starts
\* with a letter or underscore and holds only letters, digits and
\* underscores; the zero-value dialect and every dialect value outside the
\* three are rejected.
C11_ValidationAcceptsExactly ==
    verdict # "unchecked" =>
        /\ (verdict = "nil") =
               (/\ cfg.Dialect \in {DialectSqlite, DialectPostgres, DialectMysql}
                /\ cfg.TableName # <<>>
                /\ Head(cfg.TableName) \in (Lower \cup Upper \cup {"_"})
                /\ \A k \in 1 .. Len(cfg.TableName) :
                       cfg.TableName[k] \in (Lower \cup Upper \cup Digit \cup {"_"}))
        /\ cfg.Dialect = 0 => verdict # "nil"
        /\ (cfg.Dialect < 1 \/ cfg.Dialect > 3) => verdict # "nil"

\* an accepted configuration whose name holds a digit after an underscore
C11_Witness ==
    /\ verdict = "nil"
    /\ cfg.Dialect = DialectMysql
    /\ cfg.TableName = <<"_", "1", "Z">>

\* C12: a failure of any step of an Apply call (begin, create table, read of
\* the maximum version, a migration statement, a version insert, commit)
\* makes Apply return an error and aborts the call at that step: no later
\* statement is executed and nothing is retried, each statement being
\* attempted at most once per call; if the transaction cannot be begun no
\* statement is executed at all.
C12_FailureAborts ==
    /\ \A k \in 1 .. Len(trace) :
           (~trace[k].ok /\ trace[k].op # "rollback") =>
               /\ \A j \in (k + 1) .. Len(trace) : trace[j].op = "rollback"
               /\ pc \in {"rollback", "done"}
               /\ err.kind = trace[k].op
    /\ \A j, k \in 1 .. Len(trace) : j < k => Step(trace[j]) # Step(trace[k])
    /\ (trace # <<>> /\ trace[1].op = "begin" /\ ~trace[1].ok) =>
           /\ Len(trace) = 1
           /\ Returned /\ err.kind = "begin"
           /\ db = pre

\* the first of two statements of a migration failed, with a later migration
\* still pending
C12_Witness ==
    /\ Returned
    /\ err.kind = "stmt" /\ err.i = 1
    /\ Len(stmts) = 2
    /\ version < Len(migrations)

\* C13: when statement i (1-based position in the splitter's output) of the
\* migration at 1-based position v fails, the error Apply returns names
\* exactly v and i: the statements the transaction ran before the failure are
\* those of the pending migrations before v and the first i - 1 of v.
C13_ErrorNamesVersionAndStatement ==
    (Returned /\ err.kind = "stmt") =>
        /\ err.v \in FirstPending .. Len(migrations)
        /\ err.i \in 1 .. Len(SplitStatements(migrations[err.v]))
        /\ Len(tx.log) - Len(pre.log)
               = Len(StatementsOf(FirstPending, err.v - 1)) + (err.i - 1)
        /\ RowSet(tx.tables[opts.TableName]) = 1 .. (err.v - 1)

\* the second statement of the second migration applied by the call failed
C13_Witness ==
    /\ Returned
    /\ err.kind = "stmt" /\ err.i = 2
    /\ err.v = FirstPending + 1

\* C14: if a step inside the transaction fails and the rollback fails too,
\* the returned error carries the original error and the rollback error; if
\* the rollback succeeds, the original error alone is returned.
C14_RollbackErrorIsJoined ==
    (Returned /\ trace # <<>> /\ Last(trace).op = "rollback") =>
        LET failed == trace[Len(trace) - 1]
        IN  /\ ~failed.ok /\ IsStatement(failed)
            /\ err.kind = failed.op /\ err.v = failed.v /\ err.i = failed.i
            /\ err.rb = ~Last(trace).ok

\* the insert of a version failed, and then the rollback
C14_Witness ==
    /\ Returned
    /\ err.kind = "insert" /\ err.rb
    /\ ~Last(trace).ok

\* C20: within one Apply call the statements run in a fixed order: create
\* table, read of the maximum version, then for each pending migration in
\* ascending version order all its statements in splitter order followed by
\* the insert of that version, before any statement of the next migration.
C20_FixedOrder ==
    Dispatched =>
        LET issued == SelectSeq(trace, IsStatement)
            order == <<[op |-> "create", v |-> 0, i |-> 0],
                       [op |-> "readmax", v |-> 0, i |-> 0]>>
                         \o MigrationOrder(FirstPending, Len(migrations))
        IN  /\ IsPrefix([k \in 1 .. Len(issued) |-> Step(issued[k])], order)
            /\ Succeeded => Len(issued) = Len(order)

\* a successful call that ran a migration of two statements and then a later
\* migration
C20_Witness ==
    /\ Succeeded
    /\ \E k \in 1 .. Len(trace) :
           /\ trace[k].op = "stmt" /\ trace[k].i = 2
           /\ \E j \in (k + 1) .. Len(trace) :
                  trace[j].op = "stmt" /\ trace[j].v > trace[k].v

\* C15: SplitStatements never splits at a semicolon inside a single-quoted
\* string, a double-quoted string or a backtick-quoted identifier: the quoted
\* text, delimiters and semicolon included, is kept verbatim inside one
\* statement, and splitting resumes at the next semicolon after the closing
\* delimiter.
C15_QuotedTextIsNotSplit ==
    LET toks == Tokens(src)
    IN  \A k \in 1 .. Len(toks) :
            toks[k].kind = "quoted" =>
                /\ (Scanning /\ Within(toks[k])) =>
                       LET nxt == ScanStep(src, scan)
                       IN  CopiesVerbatim(nxt) /\ nxt.i <= toks[k].to
                /\ (phase = "done" /\ toks[k].closed) =>
                       \E n \in 1 .. Len(scan.out) :
                           Contains(scan.out[n], TextOf(src, toks[k]))
                /\ \A m \in (k + 1) .. Len(toks) :
                       (/\ toks[k].closed
                        /\ toks[m].kind = "semicolon"
                        /\ \A l \in (k + 1) .. (m - 1) : toks[l].kind # "semicolon"
                        /\ Scanning /\ scan.i = toks[m].from) =>
                           LET nxt == ScanStep(src, scan)
                           IN  /\ nxt.b = <<>>
                               /\ Len(nxt.out) = Len(scan.out) + 1
                               /\ Contains(Last(nxt.out), TextOf(src, toks[k]))

\* a double-quoted semicolon, then a statement after the semicolon that
\* follows the closing quote
C15_Witness ==
    /\ phase = "done"
    /\ src = <<"\"", ";", "\"", ";", "a">>
    /\ scan.out = << <<"\"", ";", "\"">>, <<"a">> >>

\* C16: the text of a line comment (from -- to the next newline) and of a
\* block comment never reaches an output statement, and a semicolon inside a
\* comment never splits; a newline ends a line comment and returns the scan
\* to default mode.
C16_CommentsAreDropped ==
    LET toks == Tokens(src)
    IN  /\ \A k \in 1 .. Len(toks) :
               IsComment(toks[k]) =>
                   /\ (Scanning /\ Within(toks[k])) =>
                          LET nxt == ScanStep(src, scan)
                          IN  /\ nxt.out = scan.out /\ nxt.b = scan.b
                              /\ nxt.i <= toks[k].to
                   /\ (/\ toks[k].kind = "line" /\ toks[k].closed
                       /\ Scanning /\ scan.i = toks[k].to - 1) =>
                          LET nxt == ScanStep(src, scan)
                          IN  nxt.i = toks[k].to /\ DefaultMode(nxt)
        /\ phase = "done" =>
               SelectSeq(Flatten(scan.out), IsInk) = SelectSeq(KeptText(src, toks), IsInk)

\* a line comment holding a semicolon, ended by a newline, then a statement
C16_Witness ==
    /\ phase = "done"
    /\ src = <<"-", "-", ";", "\n", "a", ";">>
    /\ scan.out = << <<"a">> >>

\* C17: inside a dollar-quoted block opened by a tag ($$ or $tag$) every
\* character is copied verbatim (semicolons, quote characters, -- and /* */
\* neither split nor change mode) until the exact opening tag reappears; that
\* occurrence closes the block and is itself copied, and a different tag does
\* not close it.
C17_DollarBlockIsVerbatim ==
    LET toks == Tokens(src)
    IN  \A k \in 1 .. Len(toks) :
            toks[k].kind = "dollar" =>
                LET tag == Slice(src, toks[k].from, toks[k].from + toks[k].open)
                IN  /\ (Scanning /\ Within(toks[k])) =>
                           LET nxt == ScanStep(src, scan)
                           IN  /\ CopiesVerbatim(nxt)
                               /\ nxt.i <= toks[k].to
                               /\ ~nxt.inS /\ ~nxt.inD /\ ~nxt.inB
                               /\ ~nxt.inLineComment /\ nxt.inBlockComment = 0
                               /\ nxt.dollarTag =
                                      IF nxt.i = toks[k].to /\ toks[k].closed
                                      THEN <<>> ELSE tag
                    /\ (phase = "done" /\ toks[k].closed) =>
                           \E n \in 1 .. Len(scan.out) :
                               Contains(scan.out[n], TextOf(src, toks[k]))

\* a block tagged $1$ that holds a semicolon and is closed by $1$
C17_Witness ==
    /\ phase = "done"
    /\ src = <<"$", "1", "$", ";", "$", "1", "$">>
    /\ scan.out = <<src>>

\* C18: for every input the result of SplitStatements is the sequence of
\* segments delimited by top-level semicolons, the segment after the last one
\* included, each trimmed of leading and trailing whitespace, those empty
\* after trimming dropped, in original order; so no returned statement is
\* empty or whitespace-only and there are at most as many statements as
\* top-level semicolons plus one.
C18_ResultIsTrimmedSegments ==
    phase = "done" =>
        /\ scan.out = TrimmedSegments(src)
        /\ scan.out = SplitStatements(src)
        /\ \A n \in 1 .. Len(scan.out) :
               /\ scan.out[n] # <<>>
               /\ \E k \in 1 .. Len(scan.out[n]) : IsInk(scan.out[n][k])
        /\ Len(scan.out) <= TopLevelSemicolons(src) + 1

\* a padded statement, a blank segment, and a last segment with no semicolon
C18_Witness ==
    /\ phase = "done"
    /\ src = <<" ", "a", ";", " ", ";", "a">>
    /\ scan.out = << <<"a">>, <<"a">> >>

\* C19: SplitStatements is total: for every input, those with an unterminated
\* quote, comment or dollar block and those that end in a lone backslash,
\* dollar sign, dash or slash included, each iteration moves the scan
\* position strictly forward and never past the end of the input, and the
\* function terminates and returns a result.
C19_SplitStatementsIsTotal ==
    /\ [](/\ scan.i \in 0 .. Len(src)
          /\ Scanning =>
                 LET nxt == ScanStep(src, scan)
                 IN  scan.i < nxt.i /\ nxt.i <= Len(src))
    /\ <>(phase = "done" /\ scan.i = Len(src) /\ scan.b = <<>>)

\* a single-quoted string left open that ends in a lone backslash
C19_Witness ==
    /\ phase = "done"
    /\ src = <<"a", ";", "'", "\\">>
    /\ scan.out = << <<"a">>, <<"'", "\\">> >>

\* C21: every Apply call that passes option validation begins exactly one
\* transaction and issues every statement inside it; once begin has succeeded
\* the call ends with exactly one terminal action, commit if and only if
\* every step inside the transaction succeeded and rollback otherwise, never
\* both and never neither.
C21_OneTransaction ==
    Dispatched =>
        /\ Count(trace, {"begin"}) = (IF pc = "begin" THEN 0 ELSE 1)
        /\ trace # <<>> => trace[1].op = "begin"
        /\ Count(trace, {"create", "readmax", "stmt", "insert"}) > 0 => trace[1].ok
        /\ \A k \in 1 .. Len(trace) :
               trace[k].op \in {"commit", "rollback"} => k = Len(trace)
        /\ InCall => db = pre
        /\ (Returned /\ trace[1].ok) =>
               /\ Count(trace, {"commit", "rollback"}) = 1
               /\ (Last(trace).op = "commit") =
                      (\A k \in 1 .. Len(trace) : IsStatement(trace[k]) => trace[k].ok)

\* a call that recorded a version, then failed and was rolled back
C21_Witness ==
    /\ Returned /\ Dispatched
    /\ Last(trace).op = "rollback"
    /\ \E k \in 1 .. Len(trace) : trace[k].op = "insert" /\ trace[k].ok

\* C22, as claimed: a failure creating the bookkeeping table or reading the
\* maximum recorded version is always returned wrapped with the bookkeeping
\* table name.
C22_BothNameTheTable ==
    (Returned /\ err.kind \in {"create", "readmax"}) => err.table = opts.TableName

\* C22, amended: a failure creating the bookkeeping table is returned wrapped
\* with the bookkeeping table name; a failure reading the maximum recorded
\* version is returned wrapped with a message that says what failed and does
\* not name the table.
C22_CreateNamesTheTable ==
    Returned =>
        /\ err.kind = "create" =>
               /\ err.table = opts.TableName
               /\ Last(trace).op = "rollback"
               /\ trace[Len(trace) - 1] = Call("create", 0, 0, FALSE)
        /\ err.kind = "readmax" =>
               /\ err.table = <<>>
               /\ Last(trace).op = "rollback"
               /\ trace[Len(trace) - 1] = Call("readmax", 0, 0, FALSE)

\* the create statement failed and the call returned
C22_Witness ==
    /\ Returned
    /\ err.kind = "create"
    /\ err.table = DefaultTableName

C24_DoubledDelimiterStaysInside ==
    /\ (Scanning /\ QuoteOf(scan) # "") =>
           LET q == QuoteOf(scan)
               nxt == ScanStep(src, scan)
               doubled == /\ At(src, scan.i) = q
                          /\ scan.i + 1 < Len(src) /\ At(src, scan.i + 1) = q
           IN  /\ doubled => ConsumesPair(nxt)
               /\ (QuoteOf(nxt) = "") = (At(src, scan.i) = q /\ ~doubled)
               /\ QuoteOf(nxt) \in {"", q}
               /\ nxt.out = scan.out
    /\ \A q \in {"'", "\"", Backtick} :
           (phase = "done" /\ src = <<q, q, q, ";", q, ";">>) =>
               scan.out = << <<q, q, q, ";", q>> >>

\* a double-quoted text holding a doubled quote and then a semicolon
C24_Witness ==
    /\ phase = "done"
    /\ src = <<"\"", "\"", "\"", ";", "\"", ";">>
    /\ scan.out = << <<"\"", "\"", "\"", ";", "\"">> >>

\* C25: a block comment tracks a nesting depth that starts at 1, is
\* incremented by each nested /* and decremented by each */, is never
\* negative, and the comment closes only when the depth returns to 0; all
\* content up to that point, inner */ at depth greater than 1 and semicolons
\* included, is discarded.
C25_BlockCommentDepth ==
    LET toks == Tokens(src)
    IN  /\ scan.inBlockComment >= 0
        /\ \A k \in 1 .. Len(toks) :
               (toks[k].kind = "block" /\ Scanning /\ Within(toks[k])) =>
                   LET nxt == ScanStep(src, scan)
                       depth == scan.inBlockComment
                   IN  /\ nxt.b = scan.b /\ nxt.out = scan.out
                       /\ IF scan.i = toks[k].from
                          THEN depth = 0 /\ nxt.inBlockComment = 1 /\ nxt.i = scan.i + 2
                          ELSE IF Occurs(src, scan.i, <<"/", "*">>)
                          THEN nxt.inBlockComment = depth + 1 /\ nxt.i = scan.i + 2
                          ELSE IF Occurs(src, scan.i, <<"*", "/">>)
                          THEN nxt.inBlockComment = depth - 1 /\ nxt.i = scan.i + 2
                          ELSE nxt.inBlockComment = depth /\ nxt.i = scan.i + 1
                       /\ (nxt.inBlockComment = 0) = (nxt.i = toks[k].to /\ toks[k].closed)
        /\ (phase = "done" /\ src = <<"/", "*", "/", "*", ";", "*", "/">>) =>
               scan.out = <<>> /\ scan.inBlockComment = 1

\* a comment with a comment nested in it, closed twice
C25_Witness ==
    /\ phase = "done"
    /\ src = <<"/", "*", "/", "*", "*", "/", "*", "/">>
    /\ scan.inBlockComment = 0
    /\ scan.out = <<>>

\* C26: an unterminated quote, comment or dollar-quoted block consumes the
\* rest of the script into one statement rather than failing: after the
\* unterminated opener no further split occurs, whatever semicolons follow.
C26_UnterminatedTakesTheRest ==
    LET toks == Tokens(src)
    IN  \A k \in 1 .. Len(toks) :
            ~toks[k].closed =>
                /\ k = Len(toks) /\ toks[k].to = Len(src)
                /\ (Scanning /\ Within(toks[k])) =>
                       LET nxt == ScanStep(src, scan)
                       IN  /\ nxt.out = scan.out
                           /\ nxt.b = scan.b \o (IF IsComment(toks[k]) THEN <<>>
                                                 ELSE Slice(src, scan.i, nxt.i))
                /\ (phase = "scan" /\ ~Scanning /\ ~IsComment(toks[k])) =>
                       EndsWith(scan.b, TextOf(src, toks[k]))
                /\ (phase = "done" /\ ~IsComment(toks[k])) =>
                       /\ scan.out # <<>>
                       /\ EndsWith(Last(scan.out), Trimmed(TextOf(src, toks[k])))

\* a statement, then a quote never closed with two semicolons after it
C26_Witness ==
    /\ phase = "done"
    /\ src = <<"a", ";", "'", ";", "a", ";">>
    /\ scan.out = << <<"a">>, <<"'", ";", "a", ";">> >>

\* C27: in default mode a dollar sign opens a dollar-quoted block only when
\* it is followed by zero or more characters of [A-Za-z0-9_] and then another
\* dollar sign, the block being tagged by that exact substring; otherwise
\* (the placeholder $1 before a non-dollar character, a dollar sign at the
\* end of the input) it is copied as ordinary text and later top-level
\* semicolons still split.
C27_DollarOpensOnlyWithTag ==
    /\ (Scanning /\ DefaultMode(scan) /\ At(src, scan.i) = "$") =>
           LET nxt == ScanStep(src, scan)
               ends == {j \in (scan.i + 1) .. (Len(src) - 1) :
                           /\ At(src, j) = "$"
                           /\ \A m \in (scan.i + 1) .. (j - 1) : At(src, m) \in TagRunes}
           IN  IF ends # {}
               THEN /\ Cardinality(ends) = 1
                    /\ \A j \in ends :
                           /\ nxt.dollarTag = Slice(src, scan.i, j + 1)
                           /\ nxt.i = j + 1
                    /\ CopiesVerbatim(nxt)
               ELSE ConsumesOne(nxt) /\ DefaultMode(nxt)
    /\ (phase = "done" /\ src = <<"$", "1", " ", ";", "$">>) =>
           scan.out = << <<"$", "1">>, <<"$">> >>
    /\ (phase = "done" /\ src = <<"$", "1", ";", "$", ";">>) =>
           scan.out = << <<"$", "1">>, <<"$">> >>

\* the placeholder $1, a semicolon, and a dollar sign that ends the input
C27_Witness ==
    /\ phase = "done"
    /\ src = <<"$", "1", " ", ";", "$">>
    /\ scan.out = << <<"$", "1">>, <<"$">> >>

\* C28: options are applied to the defaults (dialect SQLite, table name
\* "migrations") in the order given, a later option overriding an earlier one
\* for the same field, and validation is performed once on the final
\* configuration: a call whose earlier option value is invalid but overridden
\* by a later valid value is accepted, and a call with no options uses the
\* defaults.
C28_LaterOptionWins ==
    (verdict # "unchecked" /\ \A k \in 1 .. Len(options) : ~options[k].fails) =>
        /\ cfg.Dialect = LastSet(options, "Dialect", 1)
        /\ cfg.TableName =
               LastSet(options, "TableName", <<"m","i","g","r","a","t","i","o","n","s">>)
        /\ (verdict = "nil") =
               ~(UnsupportedDialect(cfg.Dialect) \/ UnsafeTableName(cfg.TableName))
        /\ options = <<>> =>
               /\ verdict = "nil"
               /\ cfg = [Dialect |-> 1, TableName |-> <<"m","i","g","r","a","t","i","o","n","s">>]

\* an invalid table name overridden by a valid one later in the list
C28_Witness ==
    /\ verdict = "nil"
    /\ options = <<WithTableName(<<"1", "m">>), WithDialect(DialectMysql),
                   WithTableName(<<"t">>)>>
    /\ cfg = [Dialect |-> DialectMysql, TableName |-> <<"t">>]

\* C29: at every step of the scan at most one lexical mode is active among
\* single-quoted, double-quoted, backtick-quoted, line comment, block comment
\* (depth > 0) and dollar-quoted block; so an opener of another construct met
\* inside a quoted string, a comment or a dollar block never activates a
\* second mode.
C29_OneModeAtATime ==
    /\ Cardinality(ActiveModes(scan)) <= 1
    /\ (Scanning /\ ActiveModes(scan) # {}) =>
           ActiveModes(ScanStep(src, scan)) \subseteq ActiveModes(scan)

\* a quote character met inside a line comment has been passed over
C29_Witness ==
    /\ phase = "scan"
    /\ src = <<"-", "-", "'", ";">>
    /\ scan.i = 3
    /\ ActiveModes(scan) = {"inLineComment"}

\* C30: SplitStatements only deletes and never inserts or alters text: the
\* concatenation of the returned statements is the input with exactly these
\* parts removed: comment text with its delimiters (the newline that ends a
\* line comment included), top-level semicolons, and the leading and trailing
\* whitespace of each statement; nothing is put in place of a removed
\* comment, so text right before and right after a comment becomes adjacent.
C30_OnlyDeletes ==
    phase = "done" =>
        /\ Flatten(scan.out) = InOrder(src, Remaining(src))
        /\ src = <<"a", "/", "*", "*", "/", "a">> => scan.out = << <<"a", "a">> >>
        /\ src = <<"a", "-", "-", "\n", "a">> => scan.out = << <<"a", "a">> >>

\* a block comment between two letters: the letters come back adjacent
C30_Witness ==
    /\ phase = "done"
    /\ src = <<"a", "/", "*", "*", "/", "a">>
    /\ scan.out = << <<"a", "a">> >>

\* C31: across any sequence of Apply calls the committed rows of the
\* bookkeeping table only grow: no step of any call, successful or failed,
\* deletes or rewrites a committed row or drops the table, so the maximum
\* recorded version never decreases.
C31_RecordedOnlyGrows ==
    [][\A t \in TableNames :
           /\ db.tables[t].exists => db'.tables[t].exists
           /\ IsPrefix(db.tables[t].rows, db'.tables[t].rows)
           /\ RowSet(db.tables[t]) \subseteq RowSet(db'.tables[t])
           /\ SelectMaxVersion(db', t) >= SelectMaxVersion(db, t)]_vars

\* a later call has committed new rows after the row an earlier call left
C31_Witness ==
    /\ pc = "done"
    /\ prev.called
    /\ pre.tables[DefaultTableName].rows = <<1>>
    /\ db.tables[DefaultTableName].rows = <<1, 2, 3>>
    /\ err.kind = "nil"

\* C32: when Apply is called with fewer migrations than the maximum recorded
\* version (n < L), the call executes no migration statement and no insert
\* and leaves the database as it found it; the mismatch is not an error: the
\* call returns nil whenever its database calls (begin, create, read, commit)
\* succeed, and any error it returns is the failure of one of those calls.
C32_ShortListIsANoOp ==
    (Dispatched /\ Len(migrations) < PriorMax) =>
        /\ Ops(trace) \cap {"stmt", "insert"} = {}
        /\ db = pre
        /\ pc \notin {"stmt", "insert"}
        /\ (\E k \in 1 .. Len(trace) : trace[k].op = "readmax" /\ trace[k].ok) =>
               lastAppliedVersion = PriorMax
        /\ Returned =>
               /\ (err.kind = "nil") = (\A k \in 1 .. Len(trace) : trace[k].ok)
               /\ err.kind \in {"nil", "begin", "create", "readmax", "commit"}
               /\ err.kind = "nil" =>
                      [k \in 1 .. Len(trace) |-> trace[k].op] =
                          <<"begin", "create", "readmax", "commit">>

\* three versions are recorded and a call with one migration has returned nil
C32_Witness ==
    /\ Succeeded
    /\ Dispatched
    /\ Len(migrations) = 1
    /\ PriorMax = 3
    /\ db = pre
    /\ Len(trace) = 4

\* scripts with nothing to execute: empty, whitespace only, semicolons only,
\* comments only
EmptyScripts ==
    { <<>>,
      <<" ", "\n", "\t">>,
      <<";", ";">>,
      <<" ", ";", "\n", ";">>,
      <<"-", "-", "a">>,
      <<"-", "-", "a", ";", "\n">>,
      <<"/", "*", "a", ";", "*", "/">>,
      <<"/", "*", "a", "*", "/", ";", "-", "-", "b">> }

\* C33: a pending migration whose script splits into zero statements is
\* still recorded: a call that reaches it inserts its version without having
\* executed any statement of it, a successful call leaves the version
\* committed, and a later call skips it as already applied.
C33_EmptyMigrationIsRecorded ==
    /\ \A s \in EmptyScripts : SplitStatements(s) = <<>>
    /\ Dispatched =>
        \A v \in 1 .. Len(migrations) :
            SplitStatements(migrations[v]) = <<>> =>
                /\ \A k \in 1 .. Len(trace) : ~(trace[k].op = "stmt" /\ trace[k].v = v)
                /\ (Succeeded /\ v > PriorMax) =>
                       /\ v \in Recorded(db)
                       /\ \E k \in 1 .. Len(trace) :
                              trace[k] = Call("insert", v, 0, TRUE)
                /\ (pc = "insert" /\ version = v) =>
                       /\ stmts = <<>> /\ si = 0
                       /\ v > PriorMax
                /\ v <= PriorMax =>
                       /\ \A k \in 1 .. Len(trace) : trace[k].v # v
                       /\ version # v

\* the second migration is a comment only; one call recorded versions 1 and
\* 2, and the next call has recorded version 3 without touching version 2
C33_Witness ==
    /\ Succeeded
    /\ Dispatched
    /\ Len(migrations) = 3
    /\ migrations[2] = <<"-", "-", ";">>
    /\ SplitStatements(migrations[2]) = <<>>
    /\ PriorMax = 2
    /\ prev.called /\ prev.ok /\ prev.n = 2 /\ prev.fresh
    /\ Recorded(db) = {1, 2, 3}

\* what a concurrent call has committed: its writes, once its commit landed
Landed(p) == IF Session(p).wrote THEN Session(p).own ELSE FreshDB

VersionsBy(p) == RowSet(Landed(p).tables[opts.TableName])

StatementsBy(p) == {Landed(p).log[k].v : k \in 1 .. Len(Landed(p).log)}

\* C34: under every interleaving of two concurrent Apply calls with the same
\* migrations against the same table, on an engine with atomic transactions
\* that enforces the primary key, the committed table never holds a version
\* twice and is the prefix 1..N, each statement of a migration is committed
\* at most once and by the call that committed its version, and a call that
\* returned without committing a recorded version either failed or found the
\* version already recorded and skipped it.
C34_ConcurrentCallsRecordOnce ==
    LET rows == db.tables[opts.TableName].rows
    IN  /\ rows = [k \in 1 .. Len(rows) |-> k]
        /\ RowSet(db.tables[opts.TableName]) = UNION {VersionsBy(p) : p \in Procs}
        /\ \A p, q \in Procs :
               p # q => /\ VersionsBy(p) \cap VersionsBy(q) = {}
                        /\ StatementsBy(p) \cap StatementsBy(q) = {}
        /\ \A p \in Procs : StatementsBy(p) \subseteq VersionsBy(p)
        /\ \A j, k \in 1 .. Len(db.log) :
               j # k => <<db.log[j].v, db.log[j].i>> # <<db.log[k].v, db.log[k].i>>
        /\ \A p \in Procs :
               Session(p).pc = "done" =>
                   \A v \in RowSet(db.tables[opts.TableName]) \ VersionsBy(p) :
                       \/ Session(p).err.kind # "nil"
                       \/ v <= Session(p).lastAppliedVersion

\* both calls ran the statements of the first migration in their own
\* transactions; one committed all three versions, the other was refused
\* the insert of version 1 and rolled back
C34_Witness ==
    /\ sessions.engine = "locking"
    /\ Len(migrations) = 3
    /\ db.tables[opts.TableName].rows = <<1, 2, 3>>
    /\ Session(1).pc = "done" /\ Session(1).wrote /\ Session(1).err.kind = "nil"
    /\ Session(2).pc = "done" /\ ~Session(2).wrote
    /\ Session(2).err = Err("insert", 1, 0)
    /\ Session(2).lastAppliedVersion = -1
    /\ Session(2).own.log # <<>>

====
